---------------------------- MODULE Spec2Model ----------------------------
(***************************************************************************)
(* A model of gl2_xsync.c: the client side of the _NET_WM_SYNC_REQUEST     *)
(* extended frame synchronization protocol and the frame pacing loop that  *)
(* drives it.                                                              *)
(*                                                                         *)
(* The program is single threaded.  Its control position is pc:            *)
(*   "loop"    app_run, top of the inner while (wait for frame or event)   *)
(*   "drain"   app_run, the event processing while loop                    *)
(*   "submit"  entry of submit_frame                                       *)
(*   "begin"   submit_frame, after draw_frame, before begin_frame          *)
(*   "swap"    submit_frame, before glXSwapBuffers                         *)
(*   "end"     submit_frame, before end_frame                              *)
(*   "record"  submit_frame, before the render time sample is recorded     *)
(* The environment is the monotonic clock (now), the X connection (wire,   *)
(* noise), Xlib's in-memory event queue (queue) and the X server side of   *)
(* the two sync counters (xserver).                                        *)
(***************************************************************************)
EXTENDS Integers, Sequences, FiniteSets, TLC

(***************************************************************************)
(* Bounds of the model.                                                    *)
(***************************************************************************)
\* the clock reading when the main loop is entered
StartTime == 1000
\* no blocking wait or rendering ends after this clock reading
MaxTime == 40000
\* the number of messages the window system delivers in one run
MaxEvents == 2
\* the largest serial a compositor message carries
MaxSerial == 5
\* BufferSpec: how many samples are added to a buffer, and how many of the
\* first ones are chosen freely
MaxInserted == 34
FreeSamples == 3
\* EndFrameSpec: the largest serial end_frame is called with
MaxCurrent == 11

(***************************************************************************)
(* Program constants.                                                      *)
(***************************************************************************)
\* array_size(buffer->samples)
BufferSize == 31
\* the backpressure delay in microseconds
DelayMicros == 2000
\* microseconds per second, 1e6f
Million == 1000000
\* the initial window width and height
InitialSize == 500

(***************************************************************************)
(* Frame rates are floats in the source.  A rate is kept as the exact      *)
(* fraction num/den frames per second; 29.97 is 2997/100.                  *)
(***************************************************************************)
Rate(n, d) == [num |-> n, den |-> d]

DefaultFrameRate == Rate(2997, 100)

\* the rates frame_rate starts with: the default, and "-f 60"
FrameRates == {DefaultFrameRate, Rate(60, 1)}

\* a > b on fractions with positive denominators
RateGreater(a, b) == a.num * b.den > b.num * a.den

\* faulty variant of FrameInterval: rounded up
FrameIntervalCeiling(rate) ==
    LET q == Million \div rate.num
        r == Million % rate.num
    IN  q * rate.den + (r * rate.den + rate.num - 1) \div rate.num

\* (long)(1e6f / rate): the frame interval in microseconds, truncated.
\* floor(Million * den / num) computed without leaving 32 bits.
FrameInterval(rate) ==
    LET q == Million \div rate.num
        r == Million % rate.num
    IN  q * rate.den + (r * rate.den) \div rate.num

\* 1e6f / frame_time_avg
MeasuredFrameRate(frame_time_avg) == Rate(Million, frame_time_avg)

(***************************************************************************)
(* circular_buffer                                                         *)
(***************************************************************************)
EmptyBuffer ==
    [sum |-> 0, count |-> 0, offset |-> 0,
     samples |-> [i \in 0..(BufferSize - 1) |-> 0]]

\* faulty variant of circular_buffer_add: the sample overwritten is not
\* taken out of the sum
circular_buffer_add_keeping(buffer, new_value) ==
    [sum     |-> buffer.sum + new_value,
     count   |-> buffer.count + 1,
     offset  |-> IF buffer.offset + 1 >= BufferSize
                 THEN 0 ELSE buffer.offset + 1,
     samples |-> [buffer.samples EXCEPT ![buffer.offset] = new_value]]

circular_buffer_add(buffer, new_value) ==
    LET old_value == buffer.samples[buffer.offset]
    IN  [sum     |-> buffer.sum + (new_value - old_value),
         count   |-> buffer.count + 1,
         offset  |-> IF buffer.offset + 1 >= BufferSize
                     THEN 0 ELSE buffer.offset + 1,
         samples |-> [buffer.samples EXCEPT ![buffer.offset] = new_value]]

\* C division truncates toward zero; \div floors, so negative sums are
\* divided through their magnitude.
TruncDiv(a, b) == IF a >= 0 THEN a \div b ELSE -((-a) \div b)

\* faulty variant of circular_buffer_average: always divided by count
circular_buffer_average_by_count(buffer) ==
    IF buffer.count = 0 THEN -1
    ELSE TruncDiv(buffer.sum, buffer.count)

circular_buffer_average(buffer) ==
    IF buffer.count = 0 THEN -1
    ELSE IF buffer.count < BufferSize THEN TruncDiv(buffer.sum, buffer.count)
    ELSE TruncDiv(buffer.sum, BufferSize)

(***************************************************************************)
(* Messages of the window system.                                          *)
(***************************************************************************)
Event(type, serial, flag, w, h) ==
    [type |-> type, serial |-> serial, flag |-> flag, w |-> w, h |-> h]

\* serials a _NET_WM_SYNC_REQUEST carries (l[2], l[3]); a _NET_WM_PING
\* carries a timestamp (l[1]), kept in the same field
RequestSerials == {0, 2, MaxSerial}
\* serials _NET_WM_FRAME_DRAWN and _NET_WM_FRAME_TIMINGS carry (l[0], l[1])
FeedbackSerials == {3, MaxSerial - 1}

Events ==
    {Event("Expose", 0, 0, 0, 0)}
    \cup {Event("ConfigureNotify", 0, 0, InitialSize + 140, InitialSize - 20)}
    \cup {Event("Ping", MaxSerial, 0, 0, 0)}
    \cup {Event("SyncRequest", s, f, 0, 0) : s \in RequestSerials, f \in {0, 1}}
    \cup {Event("FrameDrawn", s, 0, 0, 0) : s \in FeedbackSerials}
    \cup {Event("FrameTimings", s, 0, 0, 0) : s \in FeedbackSerials}
    \cup {Event("UnknownClientMessage", 0, 0, 0, 0)}
    \cup {Event("Other", 0, 0, 0, 0)}

\* how long a message arrives after the previous step, while poll blocks
ArrivalDelays == {0, 7000}
\* how long draw_frame and glXSwapBuffers take together
RenderDurations == {1000, 20000}

VARIABLES
    \* extended frame synchronization (lines 69-90)
    request_extended_sync, configure_extended_sync,
    current_sync_serial, request_sync_serial, configure_sync_serial,
    inflight_sync_serial, drawn_sync_serial, timing_sync_serial,
    have_xsync_extension,
    \* frame pacing (lines 112-130)
    frame_rate, frame_number, last_draw_time, next_draw_time, current_time,
    delta_time, render_time, width, height, current_width, current_height,
    frame_time_buffer, render_time_buffer,
    \* control: position, submit_frame's arguments and its caller
    pc, disposition, target_frame_rate, caller,
    \* environment
    now, wire, noise, queue, arrivals, xserver, sent_events, renderer,
    \* the messages process_event has taken, in order
    dispatched,
    \* the samples added to each buffer, in order
    inserted,
    \* the interval the last drawn frame scheduled (0 before the first), and
    \* whether submit_frame has returned early since that frame
    paced,
    \* PairSpec only: the other of two runs of the program, one with the
    \* XSync extension and one without
    twin,
    \* wait_frame_or_event: the timeout and result of its last poll and
    \* the status it returned ("none" while its loop goes round)
    wait

\* no second run is kept
NoTwin == [have |-> FALSE, xserver |-> << >>, low |-> << >>, target |-> FALSE]

syncVars == <<request_extended_sync, configure_extended_sync,
              current_sync_serial, request_sync_serial, configure_sync_serial,
              inflight_sync_serial, drawn_sync_serial, timing_sync_serial,
              have_xsync_extension>>

paceVars == <<frame_rate, frame_number, last_draw_time, next_draw_time,
              current_time, delta_time, render_time, width, height,
              current_width, current_height,
              frame_time_buffer, render_time_buffer>>

ctlVars == <<pc, disposition, target_frame_rate, caller, wait>>

envVars == <<now, wire, noise, queue, arrivals, xserver, sent_events, renderer,
             dispatched, inserted, paced, twin>>

vars == <<syncVars, paceVars, ctlVars, envVars>>

(***************************************************************************)
(* The state when app_run enters its main loop (line 836): the statics are *)
(* zero, sync_init has created both counters with value 0 when the XSync   *)
(* extension is there and frame synchronization is enabled.                *)
(***************************************************************************)
AppRunStart ==
    /\ request_extended_sync = 0
    /\ configure_extended_sync = 0
    /\ current_sync_serial = 0
    /\ request_sync_serial = 0
    /\ configure_sync_serial = 0
    /\ inflight_sync_serial = 0
    /\ drawn_sync_serial = 0
    /\ timing_sync_serial = 0
    /\ have_xsync_extension \in BOOLEAN
    /\ frame_rate \in FrameRates
    /\ frame_number = 0
    /\ last_draw_time = 0
    /\ next_draw_time = StartTime
    /\ current_time = StartTime
    /\ delta_time = 0
    /\ render_time = 0
    /\ width = InitialSize
    /\ height = InitialSize
    /\ current_width = 0
    /\ current_height = 0
    /\ frame_time_buffer = EmptyBuffer
    /\ render_time_buffer = EmptyBuffer
    /\ pc = "loop"
    /\ disposition = "frame_normal"
    /\ target_frame_rate = frame_rate
    /\ caller = "loop"
    /\ now = StartTime
    /\ wire = << >>
    /\ noise = FALSE
    /\ queue = << >>
    /\ arrivals = 0
    /\ xserver = [extended_counter |-> 0, update_counter |-> 0, requests |-> << >>]
    /\ sent_events = << >>
    /\ renderer = [draws |-> 0, swaps |-> 0]
    /\ dispatched = << >>
    /\ inserted = [frame_time_buffer |-> << >>, render_time_buffer |-> << >>]
    /\ paced = [interval |-> 0, deferred |-> FALSE]
    /\ wait = [timeout |-> 0, ret |-> 0, status |-> "none"]

Init ==
    /\ AppRunStart
    /\ twin = NoTwin


(***************************************************************************)
(* The X server side of XSyncSetCounter.                                   *)
(***************************************************************************)
Request(counter, value) == [counter |-> counter, value |-> value]

\* faulty variant of sync_counter: no test for the XSync extension
sync_counter_unguarded(x, counter, value) ==
    [x EXCEPT ![counter] = value,
              !.requests = Append(@, Request(counter, value))]

\* sync_counter: a no-op without the XSync extension
sync_counter(x, counter, value) ==
    IF ~have_xsync_extension THEN x
    ELSE [x EXCEPT ![counter] = value,
                   !.requests = Append(@, Request(counter, value))]

(***************************************************************************)
(* begin_frame and end_frame                                               *)
(***************************************************************************)
\* configure_sync_serial != 0 && configure_extended_sync   (line 500)
AdoptConfigured == configure_sync_serial # 0 /\ configure_extended_sync # 0

\* faulty variant of Align4: x & ~3 rounds down
Align4Down(x) == (x \div 4) * 4

\* (x + 3) & ~3, applied when (x & 3) != 0   (lines 506-508)
Align4(x) == IF x % 4 # 0 THEN ((x + 3) \div 4) * 4 ELSE x

\* faulty variant of DispositionIncrement: the two increments exchanged
DispositionIncrementSwapped(disp) == IF disp = "frame_urgent" THEN 1 ELSE 3

\* disposition == frame_urgent ? 3 : 1   (line 511)
DispositionIncrement(disp) == IF disp = "frame_urgent" THEN 3 ELSE 1

\* current_sync_serial once the pending configured serial is adopted and
\* the result is advanced to a multiple of 4
BeginIdleSerial ==
    Align4(IF AdoptConfigured THEN configure_sync_serial
                              ELSE current_sync_serial)

\* faulty variant of begin_frame: inflight_sync_serial is taken before the
\* serial is advanced to a multiple of 4
begin_frame_inflight_early(disp) ==
    /\ configure_sync_serial' =
           IF AdoptConfigured THEN 0 ELSE configure_sync_serial
    /\ inflight_sync_serial' =
           (IF AdoptConfigured THEN configure_sync_serial
                               ELSE current_sync_serial) + 4
    /\ current_sync_serial' = BeginIdleSerial + DispositionIncrement(disp)
    /\ xserver' = sync_counter(xserver, "extended_counter",
                               BeginIdleSerial + DispositionIncrement(disp))

\* faulty variant of begin_frame: the serial is not written to the counter
begin_frame_unpublished(disp) ==
    /\ configure_sync_serial' =
           IF AdoptConfigured THEN 0 ELSE configure_sync_serial
    /\ inflight_sync_serial' = BeginIdleSerial + 4
    /\ current_sync_serial' = BeginIdleSerial + DispositionIncrement(disp)
    /\ xserver' = xserver

\* lines 497-513
begin_frame(disp) ==
    /\ configure_sync_serial' =
           IF AdoptConfigured THEN 0 ELSE configure_sync_serial
    /\ inflight_sync_serial' = BeginIdleSerial + 4
    /\ current_sync_serial' = BeginIdleSerial + DispositionIncrement(disp)
    /\ xserver' = sync_counter(xserver, "extended_counter",
                               BeginIdleSerial + DispositionIncrement(disp))

\* faulty variant of EndIncrement: an odd serial is advanced by one only
EndIncrementByOne(low) == IF low = 1 \/ low = 3 THEN 1 ELSE 0

\* faulty variant of EndIncrement: every odd serial is advanced by 3
EndIncrementByThree(low) == IF low = 1 \/ low = 3 THEN 3 ELSE 0

\* what end_frame adds to a serial with the given two low bits (lines 521-527)
EndIncrement(low) == IF low = 1 THEN 3 ELSE IF low = 3 THEN 1 ELSE 0

\* configure_sync_serial != 0 && configure_extended_sync   (line 530)
BasicSyncPending == configure_sync_serial # 0 /\ configure_extended_sync # 0

end_frame ==
    LET low == current_sync_serial % 4
        finished == current_sync_serial + EndIncrement(low)
        x1 == IF low = 1 \/ low = 3
              THEN sync_counter(xserver, "extended_counter", finished)
              ELSE xserver
    IN  /\ current_sync_serial' = finished
        /\ IF BasicSyncPending
           THEN /\ xserver' = sync_counter(x1, "update_counter",
                                           configure_sync_serial)
                /\ configure_sync_serial' = 0
                /\ configure_extended_sync' = 0
           ELSE /\ xserver' = x1
                /\ UNCHANGED <<configure_sync_serial, configure_extended_sync>>

(***************************************************************************)
(* submit_frame                                                            *)
(***************************************************************************)
\* faulty variant of Backpressure: the comparison reversed
BackpressureReversed ==
    timing_sync_serial > 0 /\ timing_sync_serial > inflight_sync_serial

\* faulty variant of Backpressure: no test for feedback having been received
BackpressureUntimed == timing_sync_serial < inflight_sync_serial

\* timing_sync_serial > 0 && timing_sync_serial < inflight_sync_serial
Backpressure ==
    timing_sync_serial > 0 /\ timing_sync_serial < inflight_sync_serial

\* XSync and XEventsQueued(QueuedAfterReading) read what the connection
\* holds into the in-memory queue
ReadConnection ==
    /\ queue' = queue \o wire
    /\ wire' = << >>
    /\ noise' = FALSE

\* faulty variant of DeferredDrawTime: the delay taken in milliseconds
DeferredDrawTimeMillis(t) == t + DelayMicros \div 1000

\* faulty variant of DeferredDrawTime: twice the delay
DeferredDrawTimeDoubled(t) == t + 2 * DelayMicros

\* current_time + 2000   (line 550)
DeferredDrawTime(t) == t + DelayMicros

\* the early return of submit_frame (lines 543-556)
SubmitDeferred ==
    /\ pc = "submit"
    /\ Backpressure
    /\ current_time' = now
    /\ ReadConnection
    /\ next_draw_time' = DeferredDrawTime(now)
    /\ paced' = [paced EXCEPT !.deferred = TRUE]
    /\ pc' = caller
    /\ UNCHANGED <<syncVars, frame_rate, frame_number, last_draw_time,
                   delta_time, render_time, width, height, current_width,
                   current_height, frame_time_buffer, render_time_buffer,
                   disposition, target_frame_rate, caller, wait,
                   now, arrivals, xserver, sent_events, renderer,
                   dispatched, inserted, twin>>

\* faulty variant of SubmitDraw: the first frame records an interval too
SubmitDrawAlwaysSampling ==
    /\ pc = "submit"
    /\ ~Backpressure
    /\ current_time' = now
    /\ delta_time' = now - last_draw_time
    /\ frame_time_buffer' =
           circular_buffer_add(frame_time_buffer, now - last_draw_time)
    /\ inserted' = [inserted EXCEPT !.frame_time_buffer =
                        Append(@, now - last_draw_time)]
    /\ last_draw_time' = now
    /\ next_draw_time' = now + FrameInterval(target_frame_rate)
    /\ paced' = [interval |-> FrameInterval(target_frame_rate),
                 deferred |-> FALSE]
    /\ frame_number' = frame_number + 1
    /\ current_width' = width
    /\ current_height' = height
    /\ renderer' = [renderer EXCEPT !.draws = @ + 1]
    /\ pc' = "begin"
    /\ UNCHANGED <<syncVars, frame_rate, render_time, width, height,
                   render_time_buffer, disposition, target_frame_rate, caller,
                   wait, now, wire, noise, queue, arrivals, xserver,
                   sent_events, dispatched, twin>>

\* lines 543-574: the frame interval sample, the schedule, draw_frame
SubmitDraw ==
    /\ pc = "submit"
    /\ ~Backpressure
    /\ current_time' = now
    /\ IF last_draw_time # 0
       THEN /\ delta_time' = now - last_draw_time
            /\ frame_time_buffer' =
                   circular_buffer_add(frame_time_buffer, now - last_draw_time)
            /\ inserted' = [inserted EXCEPT !.frame_time_buffer =
                                Append(@, now - last_draw_time)]
       ELSE UNCHANGED <<delta_time, frame_time_buffer, inserted>>
    /\ last_draw_time' = now
    /\ next_draw_time' = now + FrameInterval(target_frame_rate)
    /\ paced' = [interval |-> FrameInterval(target_frame_rate),
                 deferred |-> FALSE]
    /\ frame_number' = frame_number + 1
    /\ current_width' = width
    /\ current_height' = height
    /\ renderer' = [renderer EXCEPT !.draws = @ + 1]
    /\ pc' = "begin"
    /\ UNCHANGED <<syncVars, frame_rate, render_time, width, height,
                   render_time_buffer, disposition, target_frame_rate, caller,
                   wait, now, wire, noise, queue, arrivals, xserver,
                   sent_events, dispatched, twin>>

\* line 575: begin_frame(d, w, frame_normal)
BeginFrame ==
    /\ pc = "begin"
    /\ begin_frame("frame_normal")
    /\ pc' = "swap"
    /\ UNCHANGED <<request_extended_sync, configure_extended_sync,
                   request_sync_serial, drawn_sync_serial, timing_sync_serial,
                   have_xsync_extension, paceVars,
                   disposition, target_frame_rate, caller, wait,
                   now, wire, noise, queue, arrivals, sent_events, renderer,
                   dispatched, inserted, paced, twin>>

\* line 576: glXSwapBuffers; drawing and presenting took d microseconds
SwapBuffers(d) ==
    /\ pc = "swap"
    /\ now + d <= MaxTime
    /\ now' = now + d
    /\ renderer' = [renderer EXCEPT !.swaps = @ + 1]
    /\ pc' = "end"
    /\ UNCHANGED <<syncVars, paceVars, disposition, target_frame_rate, caller,
                   wait,
                   wire, noise, queue, arrivals, xserver, sent_events,
                   dispatched, inserted, paced, twin>>

\* line 577: end_frame(d, w)
EndFrame ==
    /\ pc = "end"
    /\ end_frame
    /\ pc' = "record"
    /\ UNCHANGED <<request_extended_sync, request_sync_serial,
                   inflight_sync_serial, drawn_sync_serial, timing_sync_serial,
                   have_xsync_extension, paceVars,
                   disposition, target_frame_rate, caller, wait,
                   now, wire, noise, queue, arrivals, sent_events, renderer,
                   dispatched, inserted, paced, twin>>

\* lines 579-581: the render time sample
RecordRender ==
    /\ pc = "record"
    /\ current_time' = now
    /\ render_time' = now - last_draw_time
    /\ render_time_buffer' =
           circular_buffer_add(render_time_buffer, now - last_draw_time)
    /\ inserted' = [inserted EXCEPT !.render_time_buffer =
                        Append(@, now - last_draw_time)]
    /\ pc' = caller
    /\ UNCHANGED <<syncVars, frame_rate, frame_number, last_draw_time,
                   next_draw_time, delta_time, width, height, current_width,
                   current_height, frame_time_buffer,
                   disposition, target_frame_rate, caller, wait,
                   now, wire, noise, queue, arrivals, xserver, sent_events,
                   renderer, dispatched, paced, twin>>


(***************************************************************************)
(* wait_frame_or_event, called by app_run while the in-memory queue is     *)
(* empty (line 841).  The connection is readable when it holds a message   *)
(* or bytes that are not a whole message (noise).                          *)
(***************************************************************************)
Readable == wire # << >> \/ noise

\* faulty variant of PollTimeout: half the time left to next_draw_time
PollTimeoutHalved == (next_draw_time - now) \div 2

\* faulty variant of PollTimeout: the clock is not read again
PollTimeoutStale == next_draw_time - current_time

\* timeout = next_draw_time - current_time, current_time read from the
\* clock at lines 614 and 635   (line 617)
PollTimeout == next_draw_time - now

\* the locals of wait_frame_or_event after a poll
Waited(timeout, ret, status) ==
    wait' = [timeout |-> timeout, ret |-> ret, status |-> status]

\* submit_frame(d, w, disp, rate) called from the given position
CallSubmit(disp, rate, from) ==
    /\ pc' = "submit"
    /\ disposition' = disp
    /\ target_frame_rate' = rate
    /\ caller' = from

\* line 841: XEventsQueued(d, QueuedAlready) != 0 ends the inner while
LoopExit ==
    /\ pc = "loop"
    /\ queue # << >>
    /\ pc' = "drain"
    /\ UNCHANGED <<syncVars, paceVars, disposition, target_frame_rate, caller,
                   wait,
                   envVars>>

\* lines 623-625: a signal interrupts ppoll, wait_retry, app_run continues;
\* the signal is one of the MaxEvents things that reach the program
WaitInterrupted ==
    /\ pc = "loop"
    /\ queue = << >>
    /\ now < next_draw_time
    /\ current_time' = now
    /\ arrivals < MaxEvents
    /\ arrivals' = arrivals + 1
    /\ Waited(PollTimeout, -1, "wait_retry")
    /\ UNCHANGED <<syncVars, frame_rate, frame_number, last_draw_time,
                   next_draw_time, delta_time, render_time, width, height,
                   current_width, current_height, frame_time_buffer,
                   render_time_buffer, pc, disposition, target_frame_rate,
                   caller, now, wire, noise, queue, xserver, sent_events,
                   renderer, dispatched, inserted, paced, twin>>

\* lines 616-629: ppoll(next_draw_time - current_time) times out,
\* frame_ready, app_run submits a normal frame
WaitTimeout ==
    /\ pc = "loop"
    /\ queue = << >>
    /\ now < next_draw_time
    /\ ~Readable
    /\ next_draw_time <= MaxTime
    /\ current_time' = now
    /\ now' = now + PollTimeout
    /\ Waited(PollTimeout, 0, "frame_ready")
    /\ CallSubmit("frame_normal", frame_rate, "loop")
    /\ UNCHANGED <<syncVars, frame_rate, frame_number, last_draw_time,
                   next_draw_time, delta_time, render_time, width, height,
                   current_width, current_height, frame_time_buffer,
                   render_time_buffer,
                   wire, noise, queue, arrivals, xserver, sent_events,
                   renderer, dispatched, inserted, paced, twin>>

\* faulty variant of WaitReadable: event_ready whenever ppoll returns 1
WaitReadableEventReady ==
    /\ pc = "loop"
    /\ queue = << >>
    /\ now < next_draw_time
    /\ Readable
    /\ current_time' = now
    /\ ReadConnection
    /\ Waited(PollTimeout, 1, "event_ready")
    /\ pc' = "drain"
    /\ UNCHANGED <<syncVars, frame_rate, frame_number, last_draw_time,
                   next_draw_time, delta_time, render_time, width, height,
                   current_width, current_height, frame_time_buffer,
                   render_time_buffer, disposition, target_frame_rate, caller,
                   now, arrivals, xserver, sent_events, renderer,
                   dispatched, inserted, paced, twin>>

\* faulty variant of WaitReadable: frame_ready when no message was read
WaitReadableFrameReady ==
    /\ pc = "loop"
    /\ queue = << >>
    /\ now < next_draw_time
    /\ Readable
    /\ current_time' = now
    /\ ReadConnection
    /\ Waited(PollTimeout, 1,
              IF wire # << >> THEN "event_ready" ELSE "frame_ready")
    /\ IF wire # << >>
       THEN /\ pc' = "drain"
            /\ UNCHANGED <<disposition, target_frame_rate, caller>>
       ELSE CallSubmit("frame_normal", frame_rate, "loop")
    /\ UNCHANGED <<syncVars, frame_rate, frame_number, last_draw_time,
                   next_draw_time, delta_time, render_time, width, height,
                   current_width, current_height, frame_time_buffer,
                   render_time_buffer,
                   now, arrivals, xserver, sent_events, renderer,
                   dispatched, inserted, paced, twin>>

\* lines 616-635: ppoll returns 1 before the deadline; event_ready when
\* XEventsQueued(QueuedAfterReading) > 0, else the while loop goes round
WaitReadable ==
    /\ pc = "loop"
    /\ queue = << >>
    /\ now < next_draw_time
    /\ Readable
    /\ current_time' = now
    /\ ReadConnection
    /\ Waited(PollTimeout, 1, IF wire # << >> THEN "event_ready" ELSE "none")
    /\ pc' = IF wire # << >> THEN "drain" ELSE "loop"
    /\ UNCHANGED <<syncVars, frame_rate, frame_number, last_draw_time,
                   next_draw_time, delta_time, render_time, width, height,
                   current_width, current_height, frame_time_buffer,
                   render_time_buffer, disposition, target_frame_rate, caller,
                   now, arrivals, xserver, sent_events, renderer,
                   dispatched, inserted, paced, twin>>

\* faulty variant of WaitDue: event_ready whenever ppoll returns 1
WaitDueEventReady ==
    /\ pc = "loop"
    /\ queue = << >>
    /\ now >= next_draw_time
    /\ current_time' = now
    /\ IF Readable
       THEN ReadConnection
       ELSE UNCHANGED <<queue, wire, noise>>
    /\ Waited(0, IF Readable THEN 1 ELSE 0,
              IF Readable THEN "event_ready" ELSE "frame_ready")
    /\ IF Readable
       THEN /\ pc' = "drain"
            /\ UNCHANGED <<disposition, target_frame_rate, caller>>
       ELSE CallSubmit("frame_normal", frame_rate, "loop")
    /\ UNCHANGED <<syncVars, frame_rate, frame_number, last_draw_time,
                   next_draw_time, delta_time, render_time, width, height,
                   current_width, current_height, frame_time_buffer,
                   render_time_buffer,
                   now, arrivals, xserver, sent_events, renderer,
                   dispatched, inserted, paced, twin>>

\* faulty variant of WaitDue: frame_ready whatever has been read
WaitDueFrameAlways ==
    /\ pc = "loop"
    /\ queue = << >>
    /\ now >= next_draw_time
    /\ current_time' = now
    /\ IF Readable
       THEN ReadConnection
       ELSE UNCHANGED <<queue, wire, noise>>
    /\ Waited(0, IF Readable THEN 1 ELSE 0, "frame_ready")
    /\ CallSubmit("frame_normal", frame_rate, "loop")
    /\ UNCHANGED <<syncVars, frame_rate, frame_number, last_draw_time,
                   next_draw_time, delta_time, render_time, width, height,
                   current_width, current_height, frame_time_buffer,
                   render_time_buffer,
                   now, arrivals, xserver, sent_events, renderer,
                   dispatched, inserted, paced, twin>>

\* lines 614-616, 637-644: the deadline has passed; ppoll(0), event_ready
\* when a message is read, else frame_ready
WaitDue ==
    /\ pc = "loop"
    /\ queue = << >>
    /\ now >= next_draw_time
    /\ current_time' = now
    /\ IF Readable
       THEN ReadConnection
       ELSE UNCHANGED <<queue, wire, noise>>
    /\ Waited(0, IF Readable THEN 1 ELSE 0,
              IF wire # << >> THEN "event_ready" ELSE "frame_ready")
    /\ IF wire # << >>
       THEN /\ pc' = "drain"
            /\ UNCHANGED <<disposition, target_frame_rate, caller>>
       ELSE CallSubmit("frame_normal", frame_rate, "loop")
    /\ UNCHANGED <<syncVars, frame_rate, frame_number, last_draw_time,
                   next_draw_time, delta_time, render_time, width, height,
                   current_width, current_height, frame_time_buffer,
                   render_time_buffer,
                   now, arrivals, xserver, sent_events, renderer,
                   dispatched, inserted, paced, twin>>

(***************************************************************************)
(* process_event, called by app_run while the in-memory queue is not empty *)
(* (lines 851-854).  XNextEvent takes the head of the queue and the clock  *)
(* is read.  serial is the 64 bit value the two halves of a message make.  *)
(***************************************************************************)
Dequeue(type) ==
    /\ pc = "drain"
    /\ queue # << >>
    /\ Head(queue).type = type
    /\ queue' = Tail(queue)
    /\ dispatched' = Append(dispatched, Head(queue))
    /\ current_time' = now

paceRest == <<frame_rate, frame_number, last_draw_time, next_draw_time,
              delta_time, render_time, current_width, current_height,
              frame_time_buffer, render_time_buffer>>

envRest == <<now, wire, noise, arrivals, renderer, inserted, paced,
            twin>>

\* faulty variant of CapFrameRate: the faster of the two rates
CapFrameRateFaster(frame_time_avg) ==
    IF frame_time_avg > 0
       /\ RateGreater(MeasuredFrameRate(frame_time_avg), frame_rate)
    THEN MeasuredFrameRate(frame_time_avg)
    ELSE frame_rate

\* lines 666-670: cap the rate of expose frames to the measured rate
CapFrameRate(frame_time_avg) ==
    IF frame_time_avg > 0
       /\ RateGreater(frame_rate, MeasuredFrameRate(frame_time_avg))
    THEN MeasuredFrameRate(frame_time_avg)
    ELSE frame_rate

\* lines 660-674
ProcessExpose ==
    /\ Dequeue("Expose")
    /\ CallSubmit("frame_urgent",
                  CapFrameRate(circular_buffer_average(frame_time_buffer)),
                  "drain")
    /\ UNCHANGED <<syncVars, paceRest, width, height, wait, envRest,
                   xserver, sent_events>>

\* faulty variant of ConfigureAck: the serial of a frame in progress
ConfigureAckInFrame == current_sync_serial + 1

\* faulty variant of ConfigureAck: the next idle serial
ConfigureAckAdvanced == current_sync_serial + 4

\* the serial a ConfigureNotify republishes   (line 684)
ConfigureAck == current_sync_serial

\* lines 675-692
ProcessConfigureNotify ==
    /\ Dequeue("ConfigureNotify")
    /\ width' = Head(queue).w
    /\ height' = Head(queue).h
    /\ configure_sync_serial' = request_sync_serial
    /\ configure_extended_sync' = request_extended_sync
    /\ request_sync_serial' = 0
    /\ request_extended_sync' = 0
    /\ xserver' = sync_counter(xserver, "extended_counter", ConfigureAck)
    /\ UNCHANGED <<current_sync_serial, inflight_sync_serial, drawn_sync_serial,
                   timing_sync_serial, have_xsync_extension, paceRest, ctlVars,
                   envRest, sent_events>>

\* faulty variant of ProcessPing: the ping is sent back twice
ProcessPingTwice ==
    /\ Dequeue("Ping")
    /\ sent_events' = sent_events
                          \o <<[event |-> Head(queue), window |-> "root"],
                               [event |-> Head(queue), window |-> "root"]>>
    /\ UNCHANGED <<syncVars, paceRest, width, height, ctlVars, envRest,
                   xserver>>

\* lines 696-708: the ping goes back to the root window
ProcessPing ==
    /\ Dequeue("Ping")
    /\ sent_events' = Append(sent_events,
                             [event |-> Head(queue), window |-> "root"])
    /\ UNCHANGED <<syncVars, paceRest, width, height, ctlVars, envRest,
                   xserver>>

\* faulty variant of ProcessSyncRequest: the request takes effect at once
ProcessSyncRequestPromoting ==
    /\ Dequeue("SyncRequest")
    /\ request_sync_serial' = Head(queue).serial
    /\ request_extended_sync' = IF Head(queue).flag # 0 THEN 1 ELSE 0
    /\ configure_sync_serial' = Head(queue).serial
    /\ configure_extended_sync' = IF Head(queue).flag # 0 THEN 1 ELSE 0
    /\ UNCHANGED <<current_sync_serial, inflight_sync_serial,
                   drawn_sync_serial, timing_sync_serial, have_xsync_extension,
                   paceRest, width, height, ctlVars, envRest, xserver,
                   sent_events>>

\* lines 709-718
ProcessSyncRequest ==
    /\ Dequeue("SyncRequest")
    /\ request_sync_serial' = Head(queue).serial
    /\ request_extended_sync' = IF Head(queue).flag # 0 THEN 1 ELSE 0
    /\ UNCHANGED <<configure_extended_sync, current_sync_serial,
                   configure_sync_serial, inflight_sync_serial,
                   drawn_sync_serial, timing_sync_serial, have_xsync_extension,
                   paceRest, width, height, ctlVars, envRest, xserver,
                   sent_events>>

\* faulty variant of HighWater: the last serial received is kept
HighWaterOverwrite(stored, sync_serial) == sync_serial

\* if (sync_serial > stored) stored = sync_serial   (lines 724, 740)
HighWater(stored, sync_serial) ==
    IF sync_serial > stored THEN sync_serial ELSE stored

\* lines 719-732
ProcessFrameDrawn ==
    /\ Dequeue("FrameDrawn")
    /\ drawn_sync_serial' = HighWater(drawn_sync_serial, Head(queue).serial)
    /\ UNCHANGED <<request_extended_sync, configure_extended_sync,
                   current_sync_serial, request_sync_serial,
                   configure_sync_serial, inflight_sync_serial,
                   timing_sync_serial, have_xsync_extension,
                   paceRest, width, height, ctlVars, envRest, xserver,
                   sent_events>>

\* lines 733-750
ProcessFrameTimings ==
    /\ Dequeue("FrameTimings")
    /\ timing_sync_serial' = HighWater(timing_sync_serial, Head(queue).serial)
    /\ UNCHANGED <<request_extended_sync, configure_extended_sync,
                   current_sync_serial, request_sync_serial,
                   configure_sync_serial, inflight_sync_serial,
                   drawn_sync_serial, have_xsync_extension,
                   paceRest, width, height, ctlVars, envRest, xserver,
                   sent_events>>

\* faulty variant of ProcessOther: the message is read as a sync request
ProcessOtherRecorded ==
    /\ pc = "drain"
    /\ queue # << >>
    /\ Head(queue).type \in {"UnknownClientMessage", "Other"}
    /\ queue' = Tail(queue)
    /\ dispatched' = Append(dispatched, Head(queue))
    /\ current_time' = now
    /\ request_sync_serial' = Head(queue).serial
    /\ request_extended_sync' = IF Head(queue).flag # 0 THEN 1 ELSE 0
    /\ UNCHANGED <<configure_extended_sync, current_sync_serial,
                   configure_sync_serial, inflight_sync_serial,
                   drawn_sync_serial, timing_sync_serial, have_xsync_extension,
                   paceRest, width, height, ctlVars, envRest, xserver,
                   sent_events>>

\* lines 693-695, 751-770: a client message of no known type; a
\* PropertyNotify or any other event, which is traced only
ProcessOther ==
    /\ pc = "drain"
    /\ queue # << >>
    /\ Head(queue).type \in {"UnknownClientMessage", "Other"}
    /\ queue' = Tail(queue)
    /\ dispatched' = Append(dispatched, Head(queue))
    /\ current_time' = now
    /\ UNCHANGED <<syncVars, paceRest, width, height, ctlVars, envRest,
                   xserver, sent_events>>

\* faulty variant of DrainDone: the processing loop ends after any message
DrainDoneEarly ==
    /\ pc = "drain"
    /\ pc' = "loop"
    /\ UNCHANGED <<syncVars, paceVars, disposition, target_frame_rate, caller,
                   wait, envVars>>

\* line 851: XEventsQueued(d, QueuedAlready) == 0 ends the processing loop
DrainDone ==
    /\ pc = "drain"
    /\ queue = << >>
    /\ pc' = "loop"
    /\ UNCHANGED <<syncVars, paceVars, disposition, target_frame_rate, caller,
                   wait,
                   envVars>>

(***************************************************************************)
(* The window system.                                                      *)
(***************************************************************************)
\* poll blocks: the in-memory queue and the connection are empty and the
\* deadline is more than d away
PollBlocks(d) ==
    /\ pc = "loop"
    /\ queue = << >>
    /\ ~Readable
    /\ now + d < next_draw_time

\* The program looks at the connection in wait_frame_or_event and in the
\* XSync of submit_frame's early return only, so a message is put on the
\* wire right before one of them.
BeforeRead ==
    (pc = "loop" /\ queue = << >>) \/ (pc = "submit" /\ Backpressure)

\* a message reaches the connection, d microseconds into a blocking poll
\* or at once
EventArrives(e, d) ==
    /\ arrivals < MaxEvents
    /\ BeforeRead
    /\ d = 0 \/ PollBlocks(d)
    /\ now + d <= MaxTime
    /\ now' = now + d
    /\ wire' = Append(wire, e)
    /\ arrivals' = arrivals + 1
    /\ UNCHANGED <<syncVars, paceVars, ctlVars, noise, queue, xserver,
                   sent_events, renderer, dispatched, inserted, paced, twin>>

\* bytes that are not a whole message reach the connection
PartialArrives ==
    /\ arrivals < MaxEvents
    /\ BeforeRead
    /\ ~noise
    /\ noise' = TRUE
    /\ arrivals' = arrivals + 1
    /\ UNCHANGED <<syncVars, paceVars, ctlVars, now, wire, queue, xserver,
                   sent_events, renderer, dispatched, inserted, paced, twin>>

Next ==
    \/ LoopExit
    \/ WaitInterrupted
    \/ WaitTimeout
    \/ WaitReadable
    \/ WaitDue
    \/ SubmitDeferred
    \/ SubmitDraw
    \/ BeginFrame
    \/ \E d \in RenderDurations : SwapBuffers(d)
    \/ EndFrame
    \/ RecordRender
    \/ ProcessExpose
    \/ ProcessConfigureNotify
    \/ ProcessPing
    \/ ProcessSyncRequest
    \/ ProcessFrameDrawn
    \/ ProcessFrameTimings
    \/ ProcessOther
    \/ DrainDone
    \/ \E e \in Events, d \in ArrivalDelays : EventArrives(e, d)
    \/ PartialArrives

Spec == Init /\ [][Next]_vars

(***************************************************************************)
(* BufferSpec: circular_buffer_add applied to frame_time_buffer more often *)
(* than the buffer has slots.  Samples are times in microseconds; the      *)
(* first FreeSamples of them are chosen freely, the later ones are fixed   *)
(* and all different.                                                      *)
(***************************************************************************)
SampleValues == {0, 7, 20000}

BufferSamples(n) == IF n < FreeSamples THEN SampleValues ELSE {100 + n}

BufferInit ==
    /\ Init
    /\ have_xsync_extension
    /\ frame_rate = DefaultFrameRate

\* circular_buffer_add(&frame_time_buffer, new_value)   (line 566)
BufferAdd(new_value) ==
    /\ frame_time_buffer.count < MaxInserted
    /\ frame_time_buffer' = circular_buffer_add(frame_time_buffer, new_value)
    /\ inserted' = [inserted EXCEPT !.frame_time_buffer = Append(@, new_value)]
    /\ UNCHANGED <<syncVars, frame_rate, frame_number, last_draw_time,
                   next_draw_time, current_time, delta_time, render_time,
                   width, height, current_width, current_height,
                   render_time_buffer, ctlVars, now, wire, noise, queue,
                   arrivals, xserver, sent_events, renderer, dispatched,
                   paced, twin>>

BufferNext ==
    \E new_value \in BufferSamples(frame_time_buffer.count) :
        BufferAdd(new_value)

BufferSpec == BufferInit /\ [][BufferNext]_vars


(***************************************************************************)
(* RequestedSpec: app_run from the state in which an extended              *)
(* _NET_WM_SYNC_REQUEST for serial MaxSerial, read by the first wait, has  *)
(* been processed before the first frame; MaxEvents more things reach the  *)
(* program.                                                                *)
(***************************************************************************)
RequestedInit ==
    /\ request_extended_sync = 1
    /\ configure_extended_sync = 0
    /\ current_sync_serial = 0
    /\ request_sync_serial = MaxSerial
    /\ configure_sync_serial = 0
    /\ inflight_sync_serial = 0
    /\ drawn_sync_serial = 0
    /\ timing_sync_serial = 0
    /\ have_xsync_extension \in BOOLEAN
    /\ frame_rate \in FrameRates
    /\ frame_number = 0
    /\ last_draw_time = 0
    /\ next_draw_time = StartTime
    /\ current_time = StartTime
    /\ delta_time = 0
    /\ render_time = 0
    /\ width = InitialSize
    /\ height = InitialSize
    /\ current_width = 0
    /\ current_height = 0
    /\ frame_time_buffer = EmptyBuffer
    /\ render_time_buffer = EmptyBuffer
    /\ pc = "loop"
    /\ disposition = "frame_normal"
    /\ target_frame_rate = frame_rate
    /\ caller = "loop"
    /\ now = StartTime
    /\ wire = << >>
    /\ noise = FALSE
    /\ queue = << >>
    /\ arrivals = 0
    /\ xserver = [extended_counter |-> 0, update_counter |-> 0, requests |-> << >>]
    /\ sent_events = << >>
    /\ renderer = [draws |-> 0, swaps |-> 0]
    /\ dispatched = <<Event("SyncRequest", MaxSerial, 1, 0, 0)>>
    /\ inserted = [frame_time_buffer |-> << >>, render_time_buffer |-> << >>]
    /\ paced = [interval |-> 0, deferred |-> FALSE]
    /\ twin = NoTwin
    /\ wait = [timeout |-> 0, ret |-> 1, status |-> "event_ready"]

RequestedSpec == RequestedInit /\ [][Next]_vars

(***************************************************************************)
(* TimedSpec: app_run from the state in which the first frame has been     *)
(* drawn at StartTime, taking the shorter of RenderDurations, and a        *)
(* _NET_WM_FRAME_TIMINGS for serial 3, behind the serial in flight, has    *)
(* just been processed; MaxEvents more things reach the program.           *)
(***************************************************************************)
\* how long the first frame took to draw and swap
FirstRender ==
    CHOOSE r \in RenderDurations : \A q \in RenderDurations : r <= q

TimedState(arrived) ==
    /\ request_extended_sync = 0
    /\ configure_extended_sync = 0
    /\ current_sync_serial = 4
    /\ request_sync_serial = 0
    /\ configure_sync_serial = 0
    /\ inflight_sync_serial = 4
    /\ drawn_sync_serial = 0
    /\ timing_sync_serial = 3
    /\ have_xsync_extension \in BOOLEAN
    /\ frame_rate \in FrameRates
    /\ frame_number = 1
    /\ last_draw_time = StartTime
    /\ next_draw_time = StartTime + FrameInterval(frame_rate)
    /\ current_time = StartTime + FirstRender
    /\ delta_time = 0
    /\ render_time = FirstRender
    /\ width = InitialSize
    /\ height = InitialSize
    /\ current_width = InitialSize
    /\ current_height = InitialSize
    /\ frame_time_buffer = EmptyBuffer
    /\ render_time_buffer = circular_buffer_add(EmptyBuffer, FirstRender)
    /\ pc = "drain"
    /\ disposition = "frame_normal"
    /\ target_frame_rate = frame_rate
    /\ caller = "loop"
    /\ now = StartTime + FirstRender
    /\ wire = << >>
    /\ noise = FALSE
    /\ queue = << >>
    /\ arrivals = arrived
    /\ xserver =
           IF have_xsync_extension
           THEN [extended_counter |-> 4, update_counter |-> 0,
                 requests |-> <<Request("extended_counter", 1),
                                Request("extended_counter", 4)>>]
           ELSE [extended_counter |-> 0, update_counter |-> 0,
                 requests |-> << >>]
    /\ sent_events = << >>
    /\ renderer = [draws |-> 1, swaps |-> 1]
    /\ dispatched = <<Event("FrameTimings", 3, 0, 0, 0)>>
    /\ inserted = [frame_time_buffer |-> << >>,
                   render_time_buffer |-> <<FirstRender>>]
    /\ paced = [interval |-> FrameInterval(frame_rate), deferred |-> FALSE]
    /\ twin = NoTwin
    /\ wait = [timeout |-> FrameInterval(frame_rate) - FirstRender,
               ret |-> 1, status |-> "event_ready"]

\* the frame timings message is not counted among the MaxEvents arrivals
TimedInit == TimedState(0)

TimedSpec == TimedInit /\ [][Next]_vars

(***************************************************************************)
(* RecoverySpec: the program running on from the state of TimedSpec, the   *)
(* frame timings message counted as the first of the MaxEvents arrivals.   *)
(* The loop of app_run never stops of itself (lines 838-855), so the steps *)
(* of the program are weakly fair; messages, partial bytes and signals are *)
(* the environment's and come finitely often (MaxEvents).                  *)
(***************************************************************************)
ProgramStep ==
    \/ LoopExit
    \/ WaitTimeout
    \/ WaitReadable
    \/ WaitDue
    \/ SubmitDeferred
    \/ SubmitDraw
    \/ BeginFrame
    \/ \E d \in RenderDurations : SwapBuffers(d)
    \/ EndFrame
    \/ RecordRender
    \/ ProcessExpose
    \/ ProcessConfigureNotify
    \/ ProcessPing
    \/ ProcessSyncRequest
    \/ ProcessFrameDrawn
    \/ ProcessFrameTimings
    \/ ProcessOther
    \/ DrainDone

RecoveryInit == TimedState(1)

RecoverySpec == RecoveryInit /\ [][Next]_vars /\ WF_vars(ProgramStep)

(***************************************************************************)
(* PairSpec: two runs of app_run side by side, one with the XSync          *)
(* extension and frame synchronization (have_xsync_extension set by        *)
(* sync_init, lines 465-467) and one without, given the same messages and  *)
(* the same clock readings.  The variables hold one run, twin the other's  *)
(* have_xsync_extension and X server.  The run in the variables takes a    *)
(* step of Next (Lead); the variables are then set back to the state       *)
(* before that step with the other run's have_xsync_extension and X server *)
(* (Rewind); the other run takes the step that ends in the same values of  *)
(* everything else (Follow), and leads the next step (Commit).  The        *)
(* program reads have_xsync_extension in sync_counter only (line 486).     *)
(***************************************************************************)
\* everything but have_xsync_extension and the X server
LowState ==
    [request_extended_sync |-> request_extended_sync,
     configure_extended_sync |-> configure_extended_sync,
     current_sync_serial |-> current_sync_serial,
     request_sync_serial |-> request_sync_serial,
     configure_sync_serial |-> configure_sync_serial,
     inflight_sync_serial |-> inflight_sync_serial,
     drawn_sync_serial |-> drawn_sync_serial,
     timing_sync_serial |-> timing_sync_serial,
     frame_rate |-> frame_rate,
     frame_number |-> frame_number,
     last_draw_time |-> last_draw_time,
     next_draw_time |-> next_draw_time,
     current_time |-> current_time,
     delta_time |-> delta_time,
     render_time |-> render_time,
     width |-> width,
     height |-> height,
     current_width |-> current_width,
     current_height |-> current_height,
     frame_time_buffer |-> frame_time_buffer,
     render_time_buffer |-> render_time_buffer,
     pc |-> pc,
     disposition |-> disposition,
     target_frame_rate |-> target_frame_rate,
     caller |-> caller,
     wait |-> wait,
     now |-> now,
     wire |-> wire,
     noise |-> noise,
     queue |-> queue,
     arrivals |-> arrivals,
     sent_events |-> sent_events,
     renderer |-> renderer,
     dispatched |-> dispatched,
     inserted |-> inserted,
     paced |-> paced]

Matched == LowState = twin.low

PairInit ==
    /\ AppRunStart
    /\ twin = [have |-> ~have_xsync_extension, xserver |-> xserver,
               low |-> LowState, target |-> FALSE]

Lead ==
    /\ Matched
    /\ ~twin.target
    /\ Next

Rewind ==
    /\ ~Matched
    /\ ~twin.target
    /\ have_xsync_extension' = twin.have
    /\ xserver' = twin.xserver
    /\ request_extended_sync' = twin.low.request_extended_sync
    /\ configure_extended_sync' = twin.low.configure_extended_sync
    /\ current_sync_serial' = twin.low.current_sync_serial
    /\ request_sync_serial' = twin.low.request_sync_serial
    /\ configure_sync_serial' = twin.low.configure_sync_serial
    /\ inflight_sync_serial' = twin.low.inflight_sync_serial
    /\ drawn_sync_serial' = twin.low.drawn_sync_serial
    /\ timing_sync_serial' = twin.low.timing_sync_serial
    /\ frame_rate' = twin.low.frame_rate
    /\ frame_number' = twin.low.frame_number
    /\ last_draw_time' = twin.low.last_draw_time
    /\ next_draw_time' = twin.low.next_draw_time
    /\ current_time' = twin.low.current_time
    /\ delta_time' = twin.low.delta_time
    /\ render_time' = twin.low.render_time
    /\ width' = twin.low.width
    /\ height' = twin.low.height
    /\ current_width' = twin.low.current_width
    /\ current_height' = twin.low.current_height
    /\ frame_time_buffer' = twin.low.frame_time_buffer
    /\ render_time_buffer' = twin.low.render_time_buffer
    /\ pc' = twin.low.pc
    /\ disposition' = twin.low.disposition
    /\ target_frame_rate' = twin.low.target_frame_rate
    /\ caller' = twin.low.caller
    /\ wait' = twin.low.wait
    /\ now' = twin.low.now
    /\ wire' = twin.low.wire
    /\ noise' = twin.low.noise
    /\ queue' = twin.low.queue
    /\ arrivals' = twin.low.arrivals
    /\ sent_events' = twin.low.sent_events
    /\ renderer' = twin.low.renderer
    /\ dispatched' = twin.low.dispatched
    /\ inserted' = twin.low.inserted
    /\ paced' = twin.low.paced
    /\ twin' = [have |-> have_xsync_extension, xserver |-> xserver,
                low |-> LowState, target |-> TRUE]

Follow ==
    /\ ~Matched
    /\ twin.target
    /\ Next
    /\ LowState' = twin.low

Commit ==
    /\ Matched
    /\ twin.target
    /\ twin' = [twin EXCEPT !.target = FALSE]
    /\ UNCHANGED <<syncVars, paceVars, ctlVars, now, wire, noise, queue,
                   arrivals, xserver, sent_events, renderer, dispatched,
                   inserted, paced>>

PairNext == Lead \/ Rewind \/ Follow \/ Commit

PairSpec == PairInit /\ [][PairNext]_vars

(***************************************************************************)
(* EndFrameSpec: end_frame called twice in a row, from any serial up to    *)
(* MaxCurrent and any pending configured serial.  pc is "end" before the   *)
(* first call, "record" before the second and "loop" after it.  An odd     *)
(* serial is one begin_frame has left: 1 above a multiple of 4 for a       *)
(* normal frame, 3 above for an urgent one.                                *)
(***************************************************************************)
EndFrameInit ==
    /\ request_extended_sync = 0
    /\ configure_extended_sync \in {0, 1}
    /\ current_sync_serial \in 0..MaxCurrent
    /\ request_sync_serial = 0
    /\ configure_sync_serial \in RequestSerials
    /\ inflight_sync_serial = Align4(current_sync_serial + 1)
    /\ drawn_sync_serial = 0
    /\ timing_sync_serial = 0
    /\ have_xsync_extension \in BOOLEAN
    /\ frame_rate = DefaultFrameRate
    /\ frame_number = 1
    /\ last_draw_time = StartTime
    /\ next_draw_time = StartTime + FrameInterval(DefaultFrameRate)
    /\ current_time = StartTime
    /\ delta_time = 0
    /\ render_time = 0
    /\ width = InitialSize
    /\ height = InitialSize
    /\ current_width = InitialSize
    /\ current_height = InitialSize
    /\ frame_time_buffer = EmptyBuffer
    /\ render_time_buffer = EmptyBuffer
    /\ pc = "end"
    /\ disposition = IF current_sync_serial % 4 = 3
                     THEN "frame_urgent" ELSE "frame_normal"
    /\ target_frame_rate = frame_rate
    /\ caller = "loop"
    /\ now = StartTime
    /\ wire = << >>
    /\ noise = FALSE
    /\ queue = << >>
    /\ arrivals = 0
    /\ xserver = [extended_counter |->
                      IF have_xsync_extension THEN current_sync_serial ELSE 0,
                  update_counter |-> 0, requests |-> << >>]
    /\ sent_events = << >>
    /\ renderer = [draws |-> 1, swaps |-> 1]
    /\ dispatched = << >>
    /\ inserted = [frame_time_buffer |-> << >>, render_time_buffer |-> << >>]
    /\ paced = [interval |-> 0, deferred |-> FALSE]
    /\ twin = NoTwin
    /\ wait = [timeout |-> 0, ret |-> 0, status |-> "frame_ready"]

\* end_frame(d, w)   (lines 518-535)
EndFrameCall ==
    /\ pc = "end"
    /\ end_frame
    /\ pc' = "record"
    /\ UNCHANGED <<request_extended_sync, request_sync_serial,
                   inflight_sync_serial, drawn_sync_serial, timing_sync_serial,
                   have_xsync_extension, paceVars,
                   disposition, target_frame_rate, caller, wait,
                   now, wire, noise, queue, arrivals, sent_events, renderer,
                   dispatched, inserted, paced, twin>>

\* end_frame(d, w) once more
EndFrameAgain ==
    /\ pc = "record"
    /\ end_frame
    /\ pc' = "loop"
    /\ UNCHANGED <<request_extended_sync, request_sync_serial,
                   inflight_sync_serial, drawn_sync_serial, timing_sync_serial,
                   have_xsync_extension, paceVars,
                   disposition, target_frame_rate, caller, wait,
                   now, wire, noise, queue, arrivals, sent_events, renderer,
                   dispatched, inserted, paced, twin>>

EndFrameNext == EndFrameCall \/ EndFrameAgain

EndFrameSpec == EndFrameInit /\ [][EndFrameNext]_vars

(***************************************************************************)
(* What the claims below read off a state.                                 *)
(***************************************************************************)
\* the values written to a counter so far, in order
Published(counter) ==
    LET reqs == SelectSeq(xserver.requests, LAMBDA r : r.counter = counter)
    IN  [i \in 1..Len(reqs) |-> reqs[i].value]

\* the same in the next state
PublishedNext(counter) ==
    LET reqs == SelectSeq(xserver'.requests, LAMBDA r : r.counter = counter)
    IN  [i \in 1..Len(reqs) |-> reqs[i].value]

\* a frame is between its begin_frame and its end_frame
InFrame == pc \in {"swap", "end"}

\* the least multiple of 4 that is >= v
RoundUp4(v) ==
    CHOOSE m \in v..(v + 3) : m % 4 = 0

\* process_event takes a message of the given type in this step
Dispatching(type) ==
    /\ pc = "drain"
    /\ queue # << >>
    /\ Head(queue).type = type
    /\ dispatched' # dispatched

(***************************************************************************)
(* C1  Idle invariant: whenever no frame is between its begin_frame and    *)
(* its end_frame, current_sync_serial is a multiple of 4.                  *)
(***************************************************************************)
C1_IdleInvariant == ~InFrame => current_sync_serial % 4 = 0

\* idle again after two frames and messages in between
C1_Witness ==
    /\ pc = "loop"
    /\ frame_number >= 2
    /\ dispatched # << >>
    /\ current_sync_serial >= 8

(***************************************************************************)
(* C2  From an idle serial c with no extended configured serial pending,   *)
(* begin_frame publishes exactly c + 1 to the extended counter, nothing is *)
(* published before end_frame, and end_frame publishes exactly c + 4,      *)
(* leaving current_sync_serial = c + 4.  (Publishing needs the counters    *)
(* that sync_init creates.)                                                *)
(***************************************************************************)
C2_NormalCycle ==
    [][/\ (pc = "begin" /\ ~AdoptConfigured /\ current_sync_serial % 4 = 0)
          => /\ have_xsync_extension =>
                    PublishedNext("extended_counter") =
                        Append(Published("extended_counter"),
                               current_sync_serial + 1)
             /\ current_sync_serial' = current_sync_serial + 1
       /\ pc = "swap"
          => /\ xserver' = xserver
             /\ current_sync_serial' = current_sync_serial
       /\ (pc = "end" /\ current_sync_serial % 4 = 1)
          => /\ have_xsync_extension =>
                    PublishedNext("extended_counter") =
                        Append(Published("extended_counter"),
                               (current_sync_serial - 1) + 4)
             /\ current_sync_serial' = (current_sync_serial - 1) + 4
      ]_vars

\* the second frame went from idle 4 through 5 to 8
C2_Witness ==
    /\ pc = "record"
    /\ have_xsync_extension
    /\ current_sync_serial = 8
    /\ Published("extended_counter") = <<1, 4, 5, 8>>

(***************************************************************************)
(* C3  A frame submitted for an Expose publishes the idle serial plus 3 at *)
(* its begin and the idle serial plus 4 at its end.                        *)
(***************************************************************************)
C3_UrgentBeginPublishesPlus3 ==
    /\ (pc = "swap" /\ disposition = "frame_urgent" /\ have_xsync_extension)
       => /\ current_sync_serial = (inflight_sync_serial - 4) + 3
          /\ xserver.extended_counter = (inflight_sync_serial - 4) + 3
    /\ (pc = "record" /\ disposition = "frame_urgent" /\ have_xsync_extension)
       => xserver.extended_counter = (inflight_sync_serial - 4) + 4

(***************************************************************************)
(* C4  A basic sync request (extended flag clear, serial v # 0) that a     *)
(* ConfigureNotify has promoted is published to the basic counter by the   *)
(* end_frame of the next frame and is no longer pending after it.          *)
(***************************************************************************)
C4_BasicSyncAcknowledged ==
    (pc = "record" /\ have_xsync_extension)
    => /\ configure_sync_serial = 0
       /\ \A i \in 1..Len(dispatched) :
              (/\ dispatched[i].type = "SyncRequest"
               /\ dispatched[i].flag = 0
               /\ dispatched[i].serial # 0
               /\ i < Len(dispatched)
               /\ dispatched[i + 1].type = "ConfigureNotify")
              => Published("update_counter") = <<dispatched[i].serial>>


(***************************************************************************)
(* C5  begin_frame with a configured serial v # 0 pending and              *)
(* configure_extended_sync set clears the pending serial, sets             *)
(* inflight_sync_serial to the least multiple of 4 that is >= v plus 4 and *)
(* publishes that multiple plus the increment of its disposition;          *)
(* otherwise it leaves configure_sync_serial as it is and advances from    *)
(* current_sync_serial.  The program calls begin_frame with frame_normal.  *)
(***************************************************************************)
ClaimedIncrement(disp) == IF disp = "frame_urgent" THEN 3 ELSE 1

C5_BeginFrameAdoptsConfigured ==
    [][pc = "begin" =>
         LET v == configure_sync_serial
             inc == ClaimedIncrement("frame_normal")
         IN  IF v # 0 /\ configure_extended_sync # 0
             THEN /\ configure_sync_serial' = 0
                  /\ inflight_sync_serial' = RoundUp4(v) + 4
                  /\ current_sync_serial' = RoundUp4(v) + inc
                  /\ have_xsync_extension =>
                         PublishedNext("extended_counter") =
                             Append(Published("extended_counter"),
                                    RoundUp4(v) + inc)
             ELSE /\ configure_sync_serial' = v
                  /\ inflight_sync_serial' = RoundUp4(current_sync_serial) + 4
                  /\ current_sync_serial' = RoundUp4(current_sync_serial) + inc
      ]_vars

\* the first frame began with the extended request MaxSerial = 5 configured
C5_Witness ==
    /\ pc = "swap"
    /\ frame_number = 1
    /\ configure_extended_sync = 1
    /\ configure_sync_serial = 0
    /\ current_sync_serial > 4
    /\ current_sync_serial = RoundUp4(MaxSerial) + 1
    /\ inflight_sync_serial = RoundUp4(MaxSerial) + 4

(***************************************************************************)
(* C6  drawn_sync_serial and timing_sync_serial never decrease; a          *)
(* _NET_WM_FRAME_DRAWN (_NET_WM_FRAME_TIMINGS) message with serial s sets  *)
(* drawn (timing) to s if s is greater than the stored serial and changes  *)
(* nothing of the protocol or the schedule otherwise.                      *)
(***************************************************************************)
C6_HighWaterMarks ==
    [][/\ drawn_sync_serial' >= drawn_sync_serial
       /\ timing_sync_serial' >= timing_sync_serial
       /\ drawn_sync_serial' # drawn_sync_serial => Dispatching("FrameDrawn")
       /\ timing_sync_serial' # timing_sync_serial => Dispatching("FrameTimings")
       /\ Dispatching("FrameDrawn") =>
            /\ drawn_sync_serial' =
                   IF Head(queue).serial > drawn_sync_serial
                   THEN Head(queue).serial ELSE drawn_sync_serial
            /\ UNCHANGED <<request_extended_sync, configure_extended_sync,
                           current_sync_serial, request_sync_serial,
                           configure_sync_serial, inflight_sync_serial,
                           timing_sync_serial, xserver, next_draw_time,
                           last_draw_time, frame_number, renderer, pc>>
       /\ Dispatching("FrameTimings") =>
            /\ timing_sync_serial' =
                   IF Head(queue).serial > timing_sync_serial
                   THEN Head(queue).serial ELSE timing_sync_serial
            /\ UNCHANGED <<request_extended_sync, configure_extended_sync,
                           current_sync_serial, request_sync_serial,
                           configure_sync_serial, inflight_sync_serial,
                           drawn_sync_serial, xserver, next_draw_time,
                           last_draw_time, frame_number, renderer, pc>>
      ]_vars

\* a smaller serial was dispatched after a larger one and the larger stays
C6_Witness ==
    /\ Len(dispatched) = 2
    /\ dispatched[1].type = "FrameDrawn"
    /\ dispatched[2].type = "FrameDrawn"
    /\ dispatched[2].serial < dispatched[1].serial
    /\ drawn_sync_serial = dispatched[1].serial

(***************************************************************************)
(* C7  submit_frame called with 0 < timing_sync_serial <                   *)
(* inflight_sync_serial returns to its caller without drawing, presenting  *)
(* or writing a counter; next_draw_time becomes the clock reading plus     *)
(* 2000 and the serials, the frame counter, last_draw_time and both sample *)
(* buffers stay as they are.                                               *)
(***************************************************************************)
C7_BackpressureDefers ==
    [][(/\ pc = "submit"
        /\ pc' # "submit"
        /\ timing_sync_serial > 0
        /\ timing_sync_serial < inflight_sync_serial)
       => /\ pc' = caller
          /\ renderer' = renderer
          /\ xserver' = xserver
          /\ next_draw_time' = now + 2000
          /\ UNCHANGED <<current_sync_serial, inflight_sync_serial,
                         frame_number, last_draw_time, frame_time_buffer,
                         render_time_buffer>>
      ]_vars

\* an Expose frame has just been deferred
C7_Witness ==
    /\ pc = "drain"
    /\ caller = "drain"
    /\ disposition = "frame_urgent"
    /\ dispatched # << >>
    /\ dispatched[Len(dispatched)].type = "Expose"
    /\ timing_sync_serial > 0
    /\ timing_sync_serial < inflight_sync_serial
    /\ next_draw_time = current_time + 2000
    /\ renderer.draws = 1

(***************************************************************************)
(* C8  As stated: once a frame has begun, submit_frame called with         *)
(* timing_sync_serial < inflight_sync_serial does not draw and sets        *)
(* next_draw_time to the clock reading plus 2000.                          *)
(***************************************************************************)
C8_DefersWheneverBehind ==
    [][(/\ pc = "submit"
        /\ pc' # "submit"
        /\ frame_number >= 1
        /\ timing_sync_serial < inflight_sync_serial)
       => /\ renderer' = renderer
          /\ next_draw_time' = now + 2000
      ]_vars

(***************************************************************************)
(* C8 amended: once a frame has begun, submit_frame called with            *)
(* 0 < timing_sync_serial < inflight_sync_serial does not draw and sets    *)
(* next_draw_time to the clock reading plus 2000.                          *)
(***************************************************************************)
C8_DefersWhenTimingsBehind ==
    [][(/\ pc = "submit"
        /\ pc' # "submit"
        /\ frame_number >= 1
        /\ timing_sync_serial > 0
        /\ timing_sync_serial < inflight_sync_serial)
       => /\ renderer' = renderer
          /\ next_draw_time' = now + 2000
      ]_vars

\* a normally paced frame has just been deferred, after one was drawn
C8_Witness ==
    /\ pc = "loop"
    /\ caller = "loop"
    /\ disposition = "frame_normal"
    /\ frame_number >= 1
    /\ renderer.draws = frame_number
    /\ timing_sync_serial > 0
    /\ timing_sync_serial < inflight_sync_serial
    /\ next_draw_time = now + 2000
    /\ current_time = now

(***************************************************************************)
(* C9  The rate handed to submit_frame for an Expose is the smaller of     *)
(* frame_rate and 1e6 / average frame interval when that average is        *)
(* positive, and frame_rate otherwise; an average of 20000 with a          *)
(* frame_rate of 60 gives 50, and a frame drawn at a capped rate is        *)
(* followed by a next_draw_time one average interval after its start.      *)
(***************************************************************************)
RateMin(a, b) == IF a.num * b.den <= b.num * a.den THEN a ELSE b

RateSame(a, b) == a.num * b.den = b.num * a.den

C9_UrgentRateCap ==
    [][/\ Dispatching("Expose") =>
            LET avg == circular_buffer_average(frame_time_buffer)
            IN  /\ pc' = "submit"
                /\ disposition' = "frame_urgent"
                /\ avg > 0 => target_frame_rate' =
                                  RateMin(frame_rate, Rate(Million, avg))
                /\ avg <= 0 => target_frame_rate' = frame_rate
                /\ (frame_rate = Rate(60, 1) /\ avg = 20000)
                       => RateSame(target_frame_rate', Rate(50, 1))
       /\ (/\ pc = "submit"
           /\ pc' = "begin"
           /\ disposition = "frame_urgent"
           /\ RateGreater(frame_rate, target_frame_rate))
          => next_draw_time' =
                 now + circular_buffer_average(frame_time_buffer)
      ]_vars

\* 60 frames per second configured, 20000 microseconds measured, and the
\* Expose frame is scheduled at 50 frames per second
C9_Witness ==
    /\ pc = "begin"
    /\ disposition = "frame_urgent"
    /\ frame_rate = Rate(60, 1)
    /\ frame_time_buffer.count = 2
    /\ frame_time_buffer.samples[0] = 20000
    /\ RateSame(target_frame_rate, Rate(50, 1))
    /\ next_draw_time = current_time + 20000

(***************************************************************************)
(* C10  A ConfigureNotify moves request_sync_serial and                    *)
(* request_extended_sync to configure_sync_serial and                      *)
(* configure_extended_sync, zeroes the request, takes the new width and    *)
(* height, and writes current_sync_serial, unchanged, to the extended      *)
(* counter.                                                                *)
(***************************************************************************)
C10_ConfigurePromotes ==
    [][Dispatching("ConfigureNotify") =>
         /\ configure_sync_serial' = request_sync_serial
         /\ configure_extended_sync' = request_extended_sync
         /\ request_sync_serial' = 0
         /\ request_extended_sync' = 0
         /\ width' = Head(queue).w
         /\ height' = Head(queue).h
         /\ UNCHANGED <<current_sync_serial, inflight_sync_serial,
                        drawn_sync_serial, timing_sync_serial>>
         /\ PublishedNext("update_counter") = Published("update_counter")
         /\ have_xsync_extension =>
                PublishedNext("extended_counter") =
                    Append(Published("extended_counter"), current_sync_serial)
      ]_vars

\* after a frame, a pending request was promoted and serial 4 republished
C10_Witness ==
    /\ Len(dispatched) = 2
    /\ dispatched[1].type = "SyncRequest"
    /\ dispatched[2].type = "ConfigureNotify"
    /\ configure_sync_serial = dispatched[1].serial
    /\ configure_sync_serial # 0
    /\ request_sync_serial = 0
    /\ width = dispatched[2].w
    /\ have_xsync_extension
    /\ current_sync_serial = 4
    /\ Published("extended_counter") = <<1, 4, 4>>

(***************************************************************************)
(* C11  Taking a _NET_WM_SYNC_REQUEST sets request_sync_serial and         *)
(* request_extended_sync only: no counter is written and the current,      *)
(* configured, inflight, drawn and timing serials stay.  As long as no     *)
(* ConfigureNotify has been taken, nothing is pending for begin_frame and  *)
(* the frames publish what they publish without any request: from idle     *)
(* serial 4(k-1) the k-th frame publishes 4(k-1)+1 or 4(k-1)+3 and then    *)
(* 4k to the extended counter, and nothing to the basic counter.           *)
(***************************************************************************)
NoConfigureNotifyYet ==
    \A i \in 1..Len(dispatched) : dispatched[i].type # "ConfigureNotify"

C11_SyncRequestOnlyRecords ==
    /\ [](NoConfigureNotifyYet =>
            /\ configure_sync_serial = 0
            /\ configure_extended_sync = 0
            /\ Published("update_counter") = << >>
            /\ \A i \in 1..Len(Published("extended_counter")) :
                   LET k == (i + 1) \div 2
                       v == Published("extended_counter")[i]
                   IN  IF i % 2 = 1
                       THEN v \in {4 * (k - 1) + 1, 4 * (k - 1) + 3}
                       ELSE v = 4 * k)
    /\ [][Dispatching("SyncRequest") =>
            /\ request_sync_serial' = Head(queue).serial
            /\ request_extended_sync' = (IF Head(queue).flag # 0 THEN 1 ELSE 0)
            /\ xserver' = xserver
            /\ UNCHANGED <<current_sync_serial, configure_sync_serial,
                           configure_extended_sync, inflight_sync_serial,
                           drawn_sync_serial, timing_sync_serial>>
         ]_vars

\* the second frame began while an extended request for serial MaxSerial
\* was recorded and published 5 all the same
C11_Witness ==
    /\ pc = "swap"
    /\ dispatched = <<Event("SyncRequest", MaxSerial, 1, 0, 0)>>
    /\ request_sync_serial = MaxSerial
    /\ request_extended_sync = 1
    /\ Published("extended_counter") = <<1, 4, 5>>

(***************************************************************************)
(* C12  After any number of circular_buffer_add calls on a zeroed buffer   *)
(* of 31 slots, sum is the sum of the last min(count, 31) samples added.   *)
(***************************************************************************)
RECURSIVE SumOf(_)
SumOf(samples) ==
    IF samples = << >> THEN 0 ELSE Head(samples) + SumOf(Tail(samples))

\* the last n of the samples
LastOf(samples, n) == SubSeq(samples, Len(samples) - n + 1, Len(samples))

Min(a, b) == IF a <= b THEN a ELSE b

C12_SumOfRecentSamples ==
    /\ frame_time_buffer.count = Len(inserted.frame_time_buffer)
    /\ frame_time_buffer.sum =
           SumOf(LastOf(inserted.frame_time_buffer,
                        Min(frame_time_buffer.count, 31)))

\* the buffer has gone round: samples that count have been overwritten
C12_Witness ==
    /\ frame_time_buffer.count = 31 + 3
    /\ frame_time_buffer.offset = 3
    /\ inserted.frame_time_buffer[1] = 20000
    /\ inserted.frame_time_buffer[2] = 7
    /\ frame_time_buffer.sum = SumOf(inserted.frame_time_buffer) - 20007

(***************************************************************************)
(* C13  circular_buffer_average is -1 for an empty buffer, the sum of the  *)
(* samples divided by count for 1 to 31 samples, and the sum of the last   *)
(* 31 samples divided by 31 for more; after 32 different samples the first *)
(* is in neither the sum nor the average.                                  *)
(***************************************************************************)
C13_Average ==
    LET samples == inserted.frame_time_buffer
        count   == Len(samples)
        average == circular_buffer_average(frame_time_buffer)
    IN  /\ count = 0 => average = -1
        /\ (1 <= count /\ count <= 31) => average = SumOf(samples) \div count
        /\ count > 31 => average = SumOf(LastOf(samples, 31)) \div 31
        /\ (/\ count = 32
            /\ \A i, j \in 1..32 : i # j => samples[i] # samples[j])
           => /\ frame_time_buffer.sum = SumOf(Tail(samples))
              /\ average = SumOf(Tail(samples)) \div 31
              /\ \A i \in 0..30 : frame_time_buffer.samples[i] # samples[1]

\* 32 different samples, the first of them 20000 and no longer averaged
C13_Witness ==
    /\ frame_time_buffer.count = 32
    /\ inserted.frame_time_buffer[1] = 20000
    /\ \A i, j \in 1..32 :
           i # j => inserted.frame_time_buffer[i] # inserted.frame_time_buffer[j]
    /\ circular_buffer_average(frame_time_buffer)
           = SumOf(Tail(inserted.frame_time_buffer)) \div 31
    /\ circular_buffer_average(frame_time_buffer)
           # SumOf(inserted.frame_time_buffer) \div 32

(***************************************************************************)
(* C14  Every poll of wait_frame_or_event gets the timeout                 *)
(* max(0, next_draw_time - now), now being the clock as the poll is made:  *)
(* 0 once the deadline has passed.  The clock does not pass next_draw_time *)
(* while the program is in the wait.                                       *)
(***************************************************************************)
Max(a, b) == IF a >= b THEN a ELSE b

\* wait_frame_or_event polls in this step
Polling ==
    /\ pc = "loop"
    /\ queue = << >>
    /\ Len(wire') <= Len(wire)
    /\ noise' => noise

C14_PollTimeout ==
    [][/\ Polling =>
            /\ wait'.timeout = Max(0, next_draw_time - now)
            /\ now >= next_draw_time => wait'.timeout = 0
            /\ now' - now <= wait'.timeout
       /\ (pc = "loop" /\ queue = << >>) => now' <= Max(now, next_draw_time)
      ]_vars

\* the poll before the second frame waited until next_draw_time, not longer
C14_Witness ==
    /\ pc = "submit"
    /\ frame_number = 1
    /\ wait.status = "frame_ready"
    /\ wait.ret = 0
    /\ wait.timeout > 0
    /\ now = next_draw_time

(***************************************************************************)
(* C15  wait_frame_or_event returns frame_ready only when the deadline has *)
(* been reached and no message is queued or readable, and event_ready only *)
(* when a message is queued; with a message queued as it returns, the      *)
(* result is event_ready, also past the deadline.                          *)
(***************************************************************************)
C15_WaitResult ==
    [][Polling =>
         /\ wait'.status = "frame_ready"
            => /\ now' >= next_draw_time
               /\ queue' = << >>
               /\ wire' = << >>
               /\ pc' = "submit"
         /\ wait'.status = "event_ready"
            => /\ queue' # << >>
               /\ pc' = "drain"
         /\ queue' # << >> => wait'.status = "event_ready"
      ]_vars

\* past the deadline of the second frame a message was read: event_ready
C15_Witness ==
    /\ pc = "drain"
    /\ frame_number = 1
    /\ now > next_draw_time
    /\ wait = [timeout |-> 0, ret |-> 1, status |-> "event_ready"]
    /\ queue # << >>

(***************************************************************************)
(* C16  As stated: whenever the poll is interrupted, or finds the          *)
(* connection readable while no message is queued after reading, the wait  *)
(* is started again and nothing else happens: submit_frame is not called,  *)
(* no message is taken, and next_draw_time, the serials and the counters   *)
(* stay.                                                                   *)
(***************************************************************************)
NoSideEffects ==
    UNCHANGED <<syncVars, next_draw_time, frame_number, last_draw_time,
                dispatched, renderer, xserver, sent_events>>

C16_ReadinessAlwaysRetries ==
    [][(/\ Polling
        /\ \/ wait'.ret = -1
           \/ wait'.ret = 1 /\ queue' = << >>)
       => /\ pc' = "loop"
          /\ NoSideEffects
      ]_vars

(***************************************************************************)
(* C16 amended: an interrupted poll returns wait_retry, and a poll that    *)
(* finds the connection readable before the deadline while no message is   *)
(* queued after reading is repeated; in both cases the wait is started     *)
(* again and nothing else happens.  Once the deadline has passed, a        *)
(* readable connection with no message queued gives frame_ready and        *)
(* submit_frame is called.                                                 *)
(***************************************************************************)
C16_RetriesBeforeDeadline ==
    [][Polling =>
         /\ wait'.ret = -1
            => /\ wait'.status = "wait_retry"
               /\ pc' = "loop"
               /\ NoSideEffects
         /\ (wait'.ret = 1 /\ queue' = << >> /\ now < next_draw_time)
            => /\ wait'.status = "none"
               /\ pc' = "loop"
               /\ NoSideEffects
         /\ (wait'.ret = 1 /\ queue' = << >> /\ now >= next_draw_time)
            => /\ wait'.status = "frame_ready"
               /\ pc' = "submit"
      ]_vars

\* before the deadline of the second frame the connection was readable
\* but held no whole message; the wait goes on
C16_Witness ==
    /\ pc = "loop"
    /\ frame_number = 1
    /\ now < next_draw_time
    /\ wait.ret = 1
    /\ wait.status = "none"
    /\ wait.timeout = next_draw_time - now
    /\ queue = << >>
    /\ ~noise
    /\ renderer.draws = 1

(***************************************************************************)
(* C17  wait_frame_or_event polls only from app_run's wait loop with the   *)
(* in-memory queue empty, and the processing loop is left for the wait     *)
(* loop only with the queue empty: every message queued at event_ready,    *)
(* and every one queued while they are processed, is taken by              *)
(* process_event before the next poll.                                     *)
(***************************************************************************)
C17_DrainBeforeWait ==
    [][/\ wait' # wait => (pc = "loop" /\ queue = << >>)
       /\ (pc = "drain" /\ pc' = "loop") => queue = << >>
       /\ (pc = "drain" /\ queue # << >>)
          => \/ /\ queue' = Tail(queue)
                /\ dispatched' = Append(dispatched, Head(queue))
             \/ /\ queue' = queue
                /\ dispatched' = dispatched
      ]_vars

\* two messages were read by one poll and both have been processed when
\* the wait loop is reached again
C17_Witness ==
    /\ pc = "loop"
    /\ queue = << >>
    /\ wire = << >>
    /\ renderer.draws = 0
    /\ arrivals = 2
    /\ Len(dispatched) = 2
    /\ wait.status = "event_ready"

(***************************************************************************)
(* C18  current_sync_serial never decreases and no value written to the    *)
(* extended counter is less than the one written before it, whatever       *)
(* serials the _NET_WM_SYNC_REQUEST messages carry.                        *)
(***************************************************************************)
C18_SerialsNeverDecrease ==
    [][/\ current_sync_serial' >= current_sync_serial
       /\ xserver'.extended_counter >= xserver.extended_counter
      ]_vars

(***************************************************************************)
(* C19  Right after begin_frame, inflight_sync_serial is                   *)
(* current_sync_serial with its two low bits cleared, plus 4; right after  *)
(* the end_frame of the same frame current_sync_serial equals              *)
(* inflight_sync_serial; nothing but begin_frame changes                   *)
(* inflight_sync_serial.                                                   *)
(***************************************************************************)
C19_Inflight ==
    [][/\ (pc = "begin" /\ pc' = "swap")
          => inflight_sync_serial' =
                 (current_sync_serial' - (current_sync_serial' % 4)) + 4
       /\ (pc = "end" /\ pc' = "record")
          => /\ current_sync_serial' = inflight_sync_serial'
             /\ inflight_sync_serial' = inflight_sync_serial
       /\ inflight_sync_serial' # inflight_sync_serial => pc = "begin"
      ]_vars

\* the frame that adopted the configured serial MaxSerial has ended
C19_Witness ==
    /\ pc = "record"
    /\ frame_number = 2
    /\ \E i \in 1..Len(dispatched) :
           /\ dispatched[i].type = "SyncRequest"
           /\ dispatched[i].serial = MaxSerial
           /\ dispatched[i].flag = 1
    /\ inflight_sync_serial = RoundUp4(MaxSerial) + 4
    /\ current_sync_serial = inflight_sync_serial

(***************************************************************************)
(* C20  Every _NET_WM_PING taken by process_event is sent to the root      *)
(* window once, the message as received but for its window, and nothing    *)
(* else is ever sent; taking it changes none of the serials,               *)
(* next_draw_time, width and height, and writes no counter.                *)
(***************************************************************************)
C20_PingEchoed ==
    [][/\ Dispatching("Ping")
          => /\ sent_events' =
                    Append(sent_events,
                           [event |-> Head(queue), window |-> "root"])
             /\ UNCHANGED <<current_sync_serial, request_sync_serial,
                            configure_sync_serial, inflight_sync_serial,
                            drawn_sync_serial, timing_sync_serial,
                            request_extended_sync, configure_extended_sync,
                            next_draw_time, width, height, xserver>>
       /\ sent_events' # sent_events => Dispatching("Ping")
      ]_vars

\* a ping taken after the first frame is back at the root window, with the
\* timestamp it came with
C20_Witness ==
    /\ frame_number = 1
    /\ dispatched = <<Event("Ping", MaxSerial, 0, 0, 0)>>
    /\ sent_events = <<[event |-> Event("Ping", MaxSerial, 0, 0, 0),
                        window |-> "root"]>>
    /\ current_sync_serial = 4

(***************************************************************************)
(* C21  A message of no known kind is taken off the queue and has no       *)
(* effect: no counter is written, nothing is sent, submit_frame is not     *)
(* called, and the serials and the frame pacing state stay; current_time   *)
(* is the clock as read by process_event.                                  *)
(***************************************************************************)
DispatchingOther ==
    Dispatching("UnknownClientMessage") \/ Dispatching("Other")

C21_OtherMessagesNoEffect ==
    [][DispatchingOther =>
         /\ queue' = Tail(queue)
         /\ xserver' = xserver
         /\ sent_events' = sent_events
         /\ pc' = pc
         /\ current_time' = now
         /\ UNCHANGED <<syncVars, paceRest, width, height, renderer>>
      ]_vars

\* an unrecognised client message was taken after the first frame while a
\* sync request was recorded
C21_Witness ==
    /\ Len(dispatched) = 2
    /\ dispatched[1].type = "SyncRequest"
    /\ dispatched[2].type = "UnknownClientMessage"
    /\ request_sync_serial = MaxSerial
    /\ pc = "drain"
    /\ frame_number = 1
    /\ current_sync_serial = 4

(***************************************************************************)
(* C22  A frame that submit_frame does not defer goes through draw_frame,  *)
(* begin_frame, glXSwapBuffers, end_frame and the render time sample in    *)
(* this order.  With the counters of sync_init: the extended counter is    *)
(* odd from begin_frame to end_frame, so during the swap, and even after   *)
(* end_frame, and every frame writes it once at its begin and once at its  *)
(* end (a ConfigureNotify writes it once more each).                       *)
(***************************************************************************)
ConfigureNotifyCount ==
    Cardinality({i \in 1..Len(dispatched) :
                     dispatched[i].type = "ConfigureNotify"})

C22_FrameStepOrder ==
    LET samples == Len(inserted.render_time_buffer)
        written == Len(Published("extended_counter")) - ConfigureNotifyCount
    IN  /\ pc \in {"loop", "drain", "submit"}
           => /\ renderer = [draws |-> frame_number, swaps |-> frame_number]
              /\ samples = frame_number
              /\ have_xsync_extension => written = 2 * frame_number
        /\ pc = "begin"
           => /\ renderer = [draws |-> frame_number,
                             swaps |-> frame_number - 1]
              /\ samples = frame_number - 1
              /\ have_xsync_extension => written = 2 * (frame_number - 1)
        /\ pc = "swap"
           => /\ renderer = [draws |-> frame_number,
                             swaps |-> frame_number - 1]
              /\ samples = frame_number - 1
              /\ current_sync_serial % 2 = 1
              /\ have_xsync_extension
                 => /\ written = 2 * frame_number - 1
                    /\ xserver.extended_counter % 2 = 1
        /\ pc = "end"
           => /\ renderer = [draws |-> frame_number, swaps |-> frame_number]
              /\ samples = frame_number - 1
              /\ current_sync_serial % 2 = 1
              /\ have_xsync_extension
                 => /\ written = 2 * frame_number - 1
                    /\ xserver.extended_counter % 2 = 1
        /\ pc = "record"
           => /\ renderer = [draws |-> frame_number, swaps |-> frame_number]
              /\ samples = frame_number - 1
              /\ current_sync_serial % 2 = 0
              /\ have_xsync_extension
                 => /\ written = 2 * frame_number
                    /\ xserver.extended_counter % 2 = 0

\* the second frame has been presented while the counter held 5
C22_Witness ==
    /\ pc = "end"
    /\ have_xsync_extension
    /\ frame_number = 2
    /\ renderer = [draws |-> 2, swaps |-> 2]
    /\ Published("extended_counter") = <<1, 4, 5>>
    /\ xserver.extended_counter = 5

(***************************************************************************)
(* C23  Every frame that submit_frame does not defer adds one sample to    *)
(* render_time_buffer, and one sample to frame_time_buffer, the time since *)
(* the previous frame was submitted, unless it is the first frame.         *)
(* Between submissions render_time_buffer.count = frame_number and         *)
(* frame_time_buffer.count = max(0, frame_number - 1).                     *)
(***************************************************************************)
C23_SamplesPerFrame ==
    /\ [](pc \in {"loop", "drain", "submit"} =>
            /\ render_time_buffer.count = frame_number
            /\ frame_time_buffer.count = Max(0, frame_number - 1)
            /\ Len(inserted.render_time_buffer) = frame_number
            /\ Len(inserted.frame_time_buffer) = Max(0, frame_number - 1))
    /\ [][/\ (pc = "submit" /\ pc' = "begin")
             => inserted'.frame_time_buffer =
                    IF frame_number = 0
                    THEN inserted.frame_time_buffer
                    ELSE Append(inserted.frame_time_buffer,
                                now - last_draw_time)
          /\ (pc = "submit" /\ pc' = "begin")
             => /\ last_draw_time' = now
                /\ inserted'.render_time_buffer = inserted.render_time_buffer
          /\ (pc = "record" /\ pc' # "record")
             => /\ inserted'.render_time_buffer =
                       Append(inserted.render_time_buffer,
                              now - last_draw_time)
                /\ inserted'.frame_time_buffer = inserted.frame_time_buffer
          /\ inserted' # inserted
             => \/ pc = "submit" /\ pc' = "begin"
                \/ pc = "record"
         ]_vars

\* three frames: three render times, two intervals
C23_Witness ==
    /\ pc = "loop"
    /\ frame_number = 3
    /\ render_time_buffer.count = 3
    /\ frame_time_buffer.count = 2
    /\ inserted.frame_time_buffer[1] = FrameInterval(Rate(60, 1))
    /\ frame_time_buffer.sum = last_draw_time - StartTime

(***************************************************************************)
(* C24  A frame that submit_frame does not defer adds 1 to frame_number    *)
(* and sets next_draw_time to the time read on entry to submit_frame plus  *)
(* 1e6 / target_frame_rate microseconds, truncated; the time the frame     *)
(* takes to render does not enter.  Frames submitted from the wait loop    *)
(* have target_frame_rate = frame_rate: 16666 microseconds at 60 frames    *)
(* per second, 33366 at 29.97.                                             *)
(***************************************************************************)
C24_NextDrawTime ==
    /\ [](pc \in {"begin", "swap", "end", "record"} =>
            /\ next_draw_time =
                   last_draw_time + FrameInterval(target_frame_rate)
            /\ caller = "loop"
               => /\ target_frame_rate = frame_rate
                  /\ frame_rate = Rate(60, 1)
                     => next_draw_time = last_draw_time + 16666
                  /\ frame_rate = Rate(2997, 100)
                     => next_draw_time = last_draw_time + 33366)
    /\ [][(pc = "submit" /\ pc' = "begin") =>
            /\ frame_number' = frame_number + 1
            /\ last_draw_time' = now
            /\ next_draw_time' = now + FrameInterval(target_frame_rate)
         ]_vars

\* the second frame took 20000 microseconds to render and is still due
\* 16666 microseconds after it was submitted
C24_Witness ==
    /\ pc = "record"
    /\ caller = "loop"
    /\ frame_number = 2
    /\ frame_rate = Rate(60, 1)
    /\ now = last_draw_time + 20000
    /\ next_draw_time = last_draw_time + 16666

(***************************************************************************)
(* C25  end_frame adds 3 to a serial that is 1 above a multiple of 4 and   *)
(* 1 to a serial that is 3 above, and writes the result, a multiple of 4,  *)
(* to the extended counter; an even serial it leaves as it is and writes   *)
(* nothing to the extended counter.  A second call right after the first   *)
(* changes neither the serial nor the extended counter.                    *)
(***************************************************************************)
C25_EndFramePhaseRule ==
    [][(pc = "end" \/ pc = "record") =>
         /\ current_sync_serial % 4 = 1
            => /\ current_sync_serial' = current_sync_serial + 3
               /\ have_xsync_extension =>
                      PublishedNext("extended_counter") =
                          Append(Published("extended_counter"),
                                 current_sync_serial + 3)
         /\ current_sync_serial % 4 = 3
            => /\ current_sync_serial' = current_sync_serial + 1
               /\ have_xsync_extension =>
                      PublishedNext("extended_counter") =
                          Append(Published("extended_counter"),
                                 current_sync_serial + 1)
         /\ current_sync_serial % 2 = 1 => current_sync_serial' % 4 = 0
         /\ current_sync_serial % 2 = 0
            => /\ current_sync_serial' = current_sync_serial
               /\ PublishedNext("extended_counter") =
                      Published("extended_counter")
         /\ pc = "record"
            => /\ current_sync_serial' = current_sync_serial
               /\ PublishedNext("extended_counter") =
                      Published("extended_counter")
               /\ xserver'.extended_counter = xserver.extended_counter
      ]_vars

\* end_frame was called twice for an urgent frame begun at serial 7:
\* 8 was written once
C25_Witness ==
    /\ pc = "loop"
    /\ disposition = "frame_urgent"
    /\ inflight_sync_serial = 8
    /\ current_sync_serial = 8
    /\ Published("extended_counter") = <<8>>

DueAfterDrain ==
    /\ Polling
    /\ wait.status = "event_ready"
    /\ now >= next_draw_time

C27_FrameRightAfterDrain ==
    [][DueAfterDrain =>
         /\ pc' = "submit"
         /\ disposition' = "frame_normal"
      ]_vars

(***************************************************************************)
(* C27 amended: when the messages of an event_ready have been processed    *)
(* and next_draw_time has passed, the next wait gives frame_ready, and     *)
(* app_run calls submit_frame for a normal frame at frame_rate, if no      *)
(* further message has reached the connection; if one has, the wait gives  *)
(* event_ready again and the messages are processed first.                 *)
(***************************************************************************)
C27_FrameAfterDrainUnlessMessage ==
    [][DueAfterDrain =>
         IF wire = << >>
         THEN /\ pc' = "submit"
              /\ wait'.status = "frame_ready"
              /\ disposition' = "frame_normal"
              /\ target_frame_rate' = frame_rate
              /\ caller' = "loop"
         ELSE /\ pc' = "drain"
              /\ wait'.status = "event_ready"
              /\ queue' = wire
      ]_vars

\* the first frame took longer than its interval, a ConfigureNotify was
\* processed after it, and the second frame is submitted next
C27_Witness ==
    /\ pc = "submit"
    /\ caller = "loop"
    /\ disposition = "frame_normal"
    /\ frame_number = 1
    /\ now > next_draw_time
    /\ wait = [timeout |-> 0, ret |-> 0, status |-> "frame_ready"]
    /\ Len(dispatched) = 1
    /\ dispatched[1].type = "ConfigureNotify"
    /\ have_xsync_extension
    /\ Published("extended_counter") = <<1, 4, 4>>

(***************************************************************************)
(* C28  A configured serial that is not 0, promoted by a ConfigureNotify,  *)
(* goes away only in a frame that writes it to a counter: begin_frame to   *)
(* the extended counter, end_frame to the basic one.  A second             *)
(* ConfigureNotify without a new request leaves it pending.                *)
(***************************************************************************)
C28_ConfiguredNeverDiscarded ==
    [][(/\ have_xsync_extension
        /\ configure_sync_serial # 0
        /\ configure_sync_serial' # configure_sync_serial)
       => \/ /\ pc = "begin"
             /\ Len(PublishedNext("extended_counter")) =
                    Len(Published("extended_counter")) + 1
             /\ xserver'.extended_counter >= configure_sync_serial
          \/ /\ pc = "end"
             /\ PublishedNext("update_counter") =
                    Append(Published("update_counter"), configure_sync_serial)
      ]_vars

(***************************************************************************)
(* C29  When the last _NET_WM_SYNC_REQUEST processed had the extended flag *)
(* set and a serial v that is not 0, and a ConfigureNotify was processed   *)
(* right after it, the next frame writes an odd value above RoundUp4(v) to *)
(* the extended counter at its begin, with no configured serial left       *)
(* pending, and RoundUp4(v) + 4 at its end.  Stated for the first frame,   *)
(* which the messages processed so far all precede.                        *)
(***************************************************************************)
LastSyncRequest ==
    CHOOSE i \in 1..Len(dispatched) :
        /\ dispatched[i].type = "SyncRequest"
        /\ \A j \in (i + 1)..Len(dispatched) :
               dispatched[j].type # "SyncRequest"

ExtendedRequestPromoted ==
    /\ \E i \in 1..Len(dispatched) : dispatched[i].type = "SyncRequest"
    /\ dispatched[LastSyncRequest].flag = 1
    /\ dispatched[LastSyncRequest].serial # 0
    /\ LastSyncRequest < Len(dispatched)
    /\ dispatched[LastSyncRequest + 1].type = "ConfigureNotify"

C29_ExtendedRequestAcknowledged ==
    (have_xsync_extension /\ frame_number = 1 /\ ExtendedRequestPromoted)
    => LET v == dispatched[LastSyncRequest].serial
       IN  /\ pc \in {"swap", "end"}
              => /\ xserver.extended_counter % 2 = 1
                 /\ xserver.extended_counter > RoundUp4(v)
                 /\ configure_sync_serial = 0
           /\ pc = "record"
              => /\ xserver.extended_counter = RoundUp4(v) + 4
                 /\ xserver.extended_counter >= v
                 /\ configure_sync_serial = 0

\* the last element of a non-empty sequence
FinalOf(seq) == seq[Len(seq)]

(***************************************************************************)
(* C30  No phase-bit collision on resize: no message is dispatched while a *)
(* frame is between its begin_frame and its end_frame, every value a       *)
(* ConfigureNotify writes to the extended counter is a multiple of 4       *)
(* (idle, hence even), and every step that writes an odd value to the      *)
(* extended counter is the begin_frame step.                               *)
(***************************************************************************)
C30_ResizePublishesIdle ==
    [][/\ InFrame => dispatched' = dispatched
       /\ PublishedNext("extended_counter") # Published("extended_counter")
          => /\ Len(PublishedNext("extended_counter")) =
                    Len(Published("extended_counter")) + 1
             /\ Dispatching("ConfigureNotify")
                    => FinalOf(PublishedNext("extended_counter")) % 4 = 0
             /\ FinalOf(PublishedNext("extended_counter")) % 2 = 1
                    => pc = "begin" /\ pc' = "swap"
      ]_vars

\* a ConfigureNotify processed after a frame has republished the idle serial
\* that frame ended on
C30_Witness ==
    /\ have_xsync_extension
    /\ pc = "drain"
    /\ frame_number >= 1
    /\ dispatched # << >>
    /\ FinalOf(dispatched).type = "ConfigureNotify"
    /\ current_sync_serial >= 4
    /\ Len(Published("extended_counter")) >= 3
    /\ FinalOf(Published("extended_counter")) = current_sync_serial
    /\ Published("extended_counter")[Len(Published("extended_counter")) - 1] =
           current_sync_serial

(***************************************************************************)
(* C31  Deferral happens only under backpressure: a submit_frame call made *)
(* with timing_sync_serial = 0 or timing_sync_serial >= inflight_sync_serial*)
(* draws: the renderer is invoked once, and the call goes through one      *)
(* begin_frame, one buffer swap and one end_frame before it returns,       *)
(* without drawing again.                                                  *)
(***************************************************************************)
C31_NoDeferralWithoutBackpressure ==
    [][/\ (/\ pc = "submit"
           /\ \/ timing_sync_serial = 0
              \/ timing_sync_serial >= inflight_sync_serial)
          => /\ pc' = "begin"
             /\ renderer'.draws = renderer.draws + 1
             /\ renderer'.swaps = renderer.swaps
             /\ frame_number' = frame_number + 1
             /\ current_sync_serial' = current_sync_serial
       /\ pc = "begin"
          => /\ pc' = "swap"
             /\ current_sync_serial' % 2 = 1
             /\ renderer' = renderer
       /\ pc = "swap"
          => /\ pc' = "end"
             /\ renderer'.swaps = renderer.swaps + 1
             /\ renderer'.draws = renderer.draws
             /\ current_sync_serial' = current_sync_serial
       /\ pc = "end"
          => /\ pc' = "record"
             /\ current_sync_serial' % 4 = 0
             /\ renderer' = renderer
       /\ pc = "record"
          => /\ pc' = caller
             /\ pc' \in {"loop", "drain"}
             /\ renderer' = renderer
             /\ current_sync_serial' = current_sync_serial
      ]_vars

\* a second frame drawn after feedback has caught up with the serial in flight
C31_Witness ==
    /\ pc = "begin"
    /\ timing_sync_serial > 0
    /\ timing_sync_serial >= inflight_sync_serial
    /\ inflight_sync_serial > 0
    /\ renderer.draws = 2
    /\ renderer.swaps = 1

(***************************************************************************)
(* C32  Pacing floor for normally paced frames.  A frame drawn because the *)
(* wait returned frame_ready, after an earlier drawn frame, starts no      *)
(* sooner than next_draw_time.  When submit_frame has not returned early   *)
(* since the earlier frame, next_draw_time is that frame's start plus the  *)
(* interval 1e6 / target_frame_rate it scheduled, which is at least the    *)
(* interval of the later frame's rate; so the later frame starts at least  *)
(* that long after the earlier one, whatever Expose and frame timings      *)
(* messages came in between.                                               *)
(***************************************************************************)
\* submit_frame, called for frame_ready, draws a frame that is not the first
PacedDraw ==
    /\ pc = "submit"
    /\ pc' = "begin"
    /\ caller = "loop"
    /\ frame_number >= 1

\* the statement as the specification gives it: deferrals in between included
C32_PacingFloor ==
    [][PacedDraw => now >= last_draw_time + paced.interval]_vars

C32_PacingFloorWithoutDeferral ==
    [][PacedDraw =>
         /\ now >= next_draw_time
         /\ ~paced.deferred
            => /\ next_draw_time = last_draw_time + paced.interval
               /\ paced.interval >= FrameInterval(target_frame_rate)
               /\ now >= last_draw_time + paced.interval
               /\ now >= last_draw_time + FrameInterval(target_frame_rate)
      ]_vars

\* a second frame drawn for frame_ready exactly one interval after the first,
\* with a message processed in between and no early return
C32_Witness ==
    /\ pc = "begin"
    /\ caller = "loop"
    /\ frame_number = 2
    /\ timing_sync_serial >= inflight_sync_serial
    /\ Len(dispatched) >= 2
    /\ delta_time = paced.interval
    /\ now = last_draw_time

(***************************************************************************)
(* C33  Backpressure recovery.  After submit_frame has returned early,     *)
(* until a frame is drawn: next_draw_time is at most 2000 microseconds     *)
(* away, no poll is given a longer timeout or blocks longer, and a poll    *)
(* that times out is followed by a new call of submit_frame.  Once frame   *)
(* timings have caught up with the serial in flight (timing_sync_serial >= *)
(* inflight_sync_serial), that stays so until a frame is drawn, the next   *)
(* call of submit_frame draws, and a frame is drawn eventually.  Frames go *)
(* on being drawn for as long as feedback catches up: whenever there is no *)
(* backpressure a frame is drawn eventually.  Time in the model ends at    *)
(* MaxTime, so "eventually" is "unless next_draw_time has passed MaxTime". *)
(***************************************************************************)
CaughtUp == paced.deferred /\ timing_sync_serial >= inflight_sync_serial

TimeIsUp == next_draw_time > MaxTime

C33_BackpressureRecovery ==
    /\ [](paced.deferred => next_draw_time <= now + DelayMicros)
    /\ [][/\ (paced.deferred /\ pc = "loop" /\ wait' # wait)
              => /\ wait'.timeout <= DelayMicros
                 /\ now' - now <= DelayMicros
                 /\ wait'.status = "frame_ready"
                        => /\ pc' = "submit"
                           /\ caller' = "loop"
                           /\ now' >= next_draw_time
          /\ (CaughtUp /\ pc # "submit") => CaughtUp'
          /\ (CaughtUp /\ pc = "submit")
              => /\ pc' = "begin"
                 /\ renderer'.draws = renderer.draws + 1
                 /\ ~paced'.deferred
         ]_vars
    /\ paced.deferred ~> (pc = "submit" \/ ~paced.deferred \/ TimeIsUp)
    /\ CaughtUp ~> (pc = "begin" \/ TimeIsUp)
    /\ (timing_sync_serial = 0 \/ timing_sync_serial >= inflight_sync_serial)
          ~> (pc = "begin" \/ TimeIsUp)

\* a frame drawn for frame_ready one early return and 2000 microseconds
\* after the deadline, frame timings having caught up in between
C33_Witness ==
    /\ pc = "begin"
    /\ caller = "loop"
    /\ frame_number = 2
    /\ timing_sync_serial >= inflight_sync_serial
    /\ Len(dispatched) >= 2
    /\ dispatched[Len(dispatched)].type = "FrameTimings"
    /\ delta_time = paced.interval + DelayMicros
    /\ now = last_draw_time

(***************************************************************************)
(* C34  Without the XSync extension (frame synchronization disabled or the *)
(* extension missing) nothing is ever written to the basic or the extended *)
(* counter, and everything else goes as it does with it: for every step    *)
(* one of the two runs of PairSpec takes, the other run, given the same    *)
(* message and clock readings, has a step that ends with the same values   *)
(* of every other variable, the sync serials (current, inflight,           *)
(* configured, request, drawn, timing) and the frame pacing among them.    *)
(***************************************************************************)
Untouched(x) ==
    x = [extended_counter |-> 0, update_counter |-> 0, requests |-> << >>]

C34_SyncDisabledSameButSilent ==
    /\ twin.have = ~have_xsync_extension
    /\ ~have_xsync_extension => Untouched(xserver)
    /\ ~twin.have => Untouched(twin.xserver)
    /\ (~Matched /\ twin.target) => ENABLED (Next /\ LowState' = twin.low)

\* both runs have drawn a frame and processed a message: the serials have
\* advanced in both, the run with the extension has published them, the
\* other has written nothing
C34_Witness ==
    /\ Matched
    /\ twin.target
    /\ ~have_xsync_extension
    /\ frame_number >= 1
    /\ Len(dispatched) >= 1
    /\ current_sync_serial >= 4
    /\ inflight_sync_serial >= 4
    /\ Untouched(xserver)
    /\ twin.xserver.extended_counter = current_sync_serial
    /\ Len(twin.xserver.requests) >= 3

=============================================================================
